---- MODULE Spec2Model ----
(***************************************************************************)
(* The in-memory HTTP response cache (fathom_deck/core/http_cache.py) and  *)
(* the cached, retried fetch path of the widgets that use it, for a json   *)
(* endpoint (crypto_price) and an rss endpoint (google_news); the same     *)
(* cache under callers that interleave; the URL functions of core/utils.py *)
(* (is_valid_url, normalize_url, resolve_google_news_url); the metadata    *)
(* extractor with its 30-day cache; and the enrichment of posts in the     *)
(* fetch_data of the HackerNews, Google News and Reddit widgets; the        *)
(* timestamp Cache with its file and its keys (fathom_deck/core/cache.py); *)
(* main of the command line (peek_deck/__main__.py); render_ai_all         *)
(* (peek_deck/render_ai.py); and the relative-time formatters of           *)
(* peek_deck/core/utils.py.                                                *)
(*                                                                         *)
(* Time is in whole seconds, dates in whole days.  Strings are sequences   *)
(* of tokens, so that an f-string is the concatenation of its pieces.      *)
(***************************************************************************)
EXTENDS Integers, Sequences, FiniteSets, TLC

VARIABLES
    now,                \* datetime.now(), seconds
    cache,              \* _url_cache.cache : key -> <<data, timestamp>>
    pc,                 \* "idle" | "running" | "done" : position of the one thread of control
    request,            \* the widget and arguments of the invocation in progress / last made
    cache_key,          \* local: the key the fetch function computed
    attempt_number,     \* tenacity's retry_state.attempt_number
    cached,             \* local: what get_cached returned in the latest attempt
    age,                \* datetime.now() - timestamp as the latest get computed it, -1: no entry
    network_calls,      \* requests.get calls made by this invocation
    sleeps,             \* the waits tenacity slept in this invocation, in order
    errors,             \* the exceptions of this invocation's failed attempts, in order
    result,             \* outcome of the retried _fetch_from_* call
    fetch_data_result,  \* outcome of fetch_data, as its caller sees it
    calls,              \* invocations started so far
    failures,           \* failed attempts so far
    imported,           \* http_cache has been imported: _url_cache is bound
    threads,            \* callers of a cached fetch function that run side by side
    input_url,          \* the argument of normalize_url / extract
    norm_pc,            \* "start" | "returned" : position of the normalize_url call
    clean_url,          \* what normalize_url returned
    extract_url,        \* the argument of the latest extract call
    metadata_cache,     \* the 30-day metadata cache: normalized url -> <<record, day cached>>
    today,              \* the date, in days
    extract_result,     \* what the latest extract call returned
    extract_network_calls,  \* page fetches the latest extract call made
    widget,             \* the widget whose fetch_data runs
    feed,               \* the items parsed from the widget's primary feed, in order
    extracted,          \* what extract returned for each item, "skipped" when not called
    posts,              \* the posts / articles list fetch_data built
    widget_result,      \* "none" | "return" | "raise" : how fetch_data ended
    google_rss_url,     \* the argument of resolve_google_news_url
    page,               \* what the GET of the Google News page yields
    reply,              \* what the batchexecute POST yields
    resolve_result,     \* how resolve_google_news_url ended, with its sleeps and requests
    first_instance,     \* a widget instance: series_id, page_id, widget_type, widget_params
    second_instance,    \* another widget instance
    first_key,          \* what get_cache_key returned for first_instance
    second_key,         \* what get_cache_key returned for second_instance
    key_pc,             \* "start" | "returned" : position of the two get_cache_key calls
    timestamps,         \* Cache.timestamps of the live instance: key -> ISO string
    cache_file,         \* widget_timestamps.json on disk
    clock,              \* datetime.now() of the timestamp cache, seconds
    marked_at,          \* when mark_updated was last called on the live instance, by key
    last_saved,         \* the mapping the latest save() that succeeded wrote
    last_op,            \* the latest call on the Cache with its arguments and outcome
    argv,               \* sys.argv[1:], the words after the program name
    cli_pc,             \* "start" | "imported" | "running" | "exited" : position of main
    stage_log,          \* the stages main called, each with how the call ended, in order
    exit_status,        \* the exit status of the process, -1 while it runs
    page_count,         \* len(page_files): the page files discover_all_pages found
    page_index,         \* the page files render_ai_all has gone through
    rendered_pages,     \* render_ai_all's counter of rendered pages
    failed_pages,       \* render_ai_all's counter of failed pages
    current_page,       \* the page file gone through last: what loading and rendering it meet
    written,            \* docs/<page id>.md of that page: the widget sections it holds
    render_pc,          \* "start" | "loop" | "returned" : position of render_ai_all
    ago_timestamp,      \* the instant handed to the two formatters, Unix seconds
    ago_now,            \* the time of the call, Unix seconds
    timestamp_ago_text, \* what format_timestamp_ago returned
    time_ago_text,      \* what format_time_ago returned for the same instant
    ago_pc              \* "start" | "returned" : position of the two calls

vars == <<now, cache, pc, request, cache_key, attempt_number, cached, age,
          network_calls, sleeps, errors, result, fetch_data_result, calls, failures,
          imported, threads, input_url, norm_pc, clean_url,
          extract_url, metadata_cache, today, extract_result, extract_network_calls,
          widget, feed, extracted, posts, widget_result,
          google_rss_url, page, reply, resolve_result,
          first_instance, second_instance, first_key, second_key, key_pc,
          timestamps, cache_file, clock, marked_at, last_saved, last_op,
          argv, cli_pc, stage_log, exit_status,
          page_count, page_index, rendered_pages, failed_pages, current_page, written,
          render_pc, ago_timestamp, ago_now, timestamp_ago_text, time_ago_text, ago_pc>>

\* the state of the one sequential caller
fetchVars == <<pc, request, cache_key, attempt_number, cached, age, network_calls,
               sleeps, errors, result, fetch_data_result, calls, failures>>

\* the state of the side-by-side callers
sharedVars == <<imported, threads>>

\* the state of one normalize_url call
normVars == <<input_url, norm_pc, clean_url>>

\* the state of the metadata extractor
extractVars == <<extract_url, metadata_cache, today, extract_result,
                 extract_network_calls>>

\* the state of one fetch_data call of a widget that enriches its posts
widgetVars == <<widget, feed, extracted, posts, widget_result>>

\* the state of one resolve_google_news_url call
resolveVars == <<google_rss_url, page, reply, resolve_result>>

\* the state of two get_cache_key calls
keyVars == <<first_instance, second_instance, first_key, second_key, key_pc>>

\* the state of the timestamp Cache and its file
stampVars == <<timestamps, cache_file, clock, marked_at, last_saved, last_op>>

\* the state of one run of the command line
cliVars == <<argv, cli_pc, stage_log, exit_status>>

\* the state of one render_ai_all call
renderVars == <<page_count, page_index, rendered_pages, failed_pages, current_page,
                written, render_pc>>

\* the state of one call of each relative-time formatter
agoVars == <<ago_timestamp, ago_now, timestamp_ago_text, time_ago_text, ago_pc>>

\* the state of the stages of the pipeline: timestamps, command line, rendering
lateVars == <<keyVars, stampVars, cliVars, renderVars, agoVars>>

\* what the steps on the request cache leave alone
otherVars == <<normVars, extractVars, widgetVars, resolveVars, lateVars>>

-----------------------------------------------------------------------------
(* Bounds of the exploration *)

MaxCalls == 3
MaxFailures == 3
MaxTime == 185
TickSteps == {89, 90}
MaxThreadCalls == 2
MaxThreadFailures == 1
MaxParams == 3
MaxExtracts == 3
MaxPosts == 2
MaxDays == 41
DaySteps == {10, 20, 21}

-----------------------------------------------------------------------------
(* Program constants *)

ttl_seconds == 180
CACHE_DAYS == 30
MAX_ATTEMPTS == 3
WAIT_MULTIPLIER == 1
WAIT_MIN == 2
WAIT_MAX == 10
EXP_BASE == 2

-----------------------------------------------------------------------------
(* Values *)

None == [kind |-> "None", items |-> <<>>]

\* json bodies a ticker / coin endpoint can answer with, and rss texts
FullDict == [kind |-> "dict", items |-> <<"fields">>]
EmptyDict == [kind |-> "dict", items |-> <<>>]
FeedText == [kind |-> "str", items |-> <<"<rss/>">>]
EmptyText == [kind |-> "str", items |-> <<>>]

\* Python truthiness of a value: None and empty containers/strings are falsy
Truthy(v) == v.kind # "None" /\ Len(v.items) > 0

Min2(a, b) == IF a < b THEN a ELSE b
Max2(a, b) == IF a > b THEN a ELSE b

RECURSIVE Pow(_, _)
Pow(b, e) == IF e = 0 THEN 1 ELSE b * Pow(b, e - 1)

RECURSIVE Sum(_)
Sum(s) == IF s = <<>> THEN 0 ELSE Head(s) + Sum(Tail(s))

-----------------------------------------------------------------------------
(* Requests the widgets make *)

GeminiRequests == {[widget |-> "crypto_price", args |-> << <<"btcusd">> >>]}

\* (query, locale, region) as configured by the page
GoogleNewsRequests ==
    {[widget |-> "google_news", args |-> << <<"btc">>, <<"fr", "&", "hl", "=", "en">>, <<"US">> >>],
     [widget |-> "google_news", args |-> << <<"btc", "&", "hl", "=", "fr">>, <<"en">>, <<"US">> >>]}

Requests == GeminiRequests \cup GoogleNewsRequests

NoRequest == [widget |-> "none", args |-> <<>>]

\* params dict of _fetch_from_google_news, in insertion order
GoogleNewsParams(query, locale, region) ==
    << <<"q", query>>, <<"hl", locale>>, <<"gl", region>>, <<"ceid", region \o <<":en">> >> >>

RequestUrl(req) ==
    CASE req.widget = "crypto_price" ->
            <<"https://api.gemini.com/v1/pubticker/">> \o req.args[1]
      [] req.widget = "google_news" -> <<"https://news.google.com/rss/search">>
      [] OTHER -> <<>>

\* the query parameters handed to requests.get, as a dict in insertion order
RequestParams(req) ==
    CASE req.widget = "google_news" ->
            GoogleNewsParams(req.args[1], req.args[2], req.args[3])
      [] OTHER -> <<>>

\* the cache key each fetch function builds
CacheKey(req) ==
    CASE req.widget = "crypto_price" -> RequestUrl(req)
      [] req.widget = "google_news" ->
            RequestUrl(req) \o <<"?", "q", "=">> \o req.args[1]
                \o <<"&", "hl", "=">> \o req.args[2]
                \o <<"&", "gl", "=">> \o req.args[3]
      [] OTHER -> <<>>

\* the names of the parameters in the order the key lists them
KeyParamNames(req) ==
    CASE req.widget = "google_news" -> <<"q", "hl", "gl">>
      [] OTHER -> <<>>

-----------------------------------------------------------------------------
(* Network outcomes of one requests.get + raise_for_status + decode *)

Failures(req) ==
    {"HTTPError4xx", "HTTPError5xx", "ConnectionError", "Timeout"} \cup
    (IF req.widget = "google_news" THEN {} ELSE {"JSONDecodeError"})

Payloads(req) ==
    IF req.widget = "google_news" THEN {FeedText, EmptyText}
    ELSE {FullDict, EmptyDict}

Outcomes(req) ==
    {[ok |-> TRUE, data |-> d, error |-> "none"] : d \in Payloads(req)} \cup
    {[ok |-> FALSE, data |-> None, error |-> e] : e \in Failures(req)}

-----------------------------------------------------------------------------
(* URLCache *)

EmptyCache == [k \in {} |-> <<None, 0>>]

Fresh_inclusive(timestamp, t) == t - timestamp <= ttl_seconds

\* datetime.now() - timestamp < self.ttl
Fresh(timestamp, t) == t - timestamp < ttl_seconds

\* URLCache.get: the value returned
URLCache_get(c, url, t) ==
    IF url \in DOMAIN c /\ Fresh(c[url][2], t) THEN c[url][1] ELSE None

URLCache_get_cache_sweep(c, url, t) ==
    IF url \in DOMAIN c /\ ~Fresh(c[url][2], t)
    THEN [k \in {j \in DOMAIN c : Fresh(c[j][2], t)} |-> c[k]]
    ELSE c

URLCache_get_cache_sliding(c, url, t) ==
    IF url \in DOMAIN c /\ ~Fresh(c[url][2], t)
    THEN [k \in DOMAIN c \ {url} |-> c[k]]
    ELSE [k \in DOMAIN c |-> IF k = url THEN <<c[k][1], t>> ELSE c[k]]

\* URLCache.get: the cache it leaves (an expired entry of url is deleted)
URLCache_get_cache(c, url, t) ==
    IF url \in DOMAIN c /\ ~Fresh(c[url][2], t)
    THEN [k \in DOMAIN c \ {url} |-> c[k]]
    ELSE c

\* URLCache.get: the age it computes for the entry of url (-1: url not in the cache)
URLCache_get_age(c, url, t) == IF url \in DOMAIN c THEN t - c[url][2] ELSE -1

\* URLCache.set
URLCache_set(c, url, data, t) ==
    [k \in DOMAIN c \cup {url} |-> IF k = url THEN <<data, t>> ELSE c[k]]

-----------------------------------------------------------------------------
(* Retry policy: stop_after_attempt(3), wait_exponential(multiplier=1, min=2, max=10) *)

wait_exponential_from_one(n) ==
    Max2(Max2(0, WAIT_MIN), Min2(WAIT_MULTIPLIER * Pow(EXP_BASE, n), WAIT_MAX))

wait_exponential(n) ==
    Max2(Max2(0, WAIT_MIN), Min2(WAIT_MULTIPLIER * Pow(EXP_BASE, n - 1), WAIT_MAX))

stop_after_attempt_late(n) == n > MAX_ATTEMPTS

stop_after_attempt(n) == n >= MAX_ATTEMPTS

retry_if_exception_not_4xx(e) == e # "HTTPError4xx"

\* no retry= argument is given: tenacity retries on every exception
retry_if_exception(e) == TRUE

-----------------------------------------------------------------------------
(* fetch_data around the retried fetch *)

NoResult == [kind |-> "none", value |-> None, error |-> "none"]
Return(v) == [kind |-> "return", value |-> v, error |-> "none"]
Raise(e) == [kind |-> "raise", value |-> None, error |-> e]

fetch_data_swallow(req, res) ==
    IF res.kind = "raise" THEN Return(None)
    ELSE IF req.widget = "google_news"
         THEN IF res.value = FeedText THEN Return(res.value) ELSE Raise("ParseError")
         ELSE IF res.value = FullDict THEN Return(res.value) ELSE Raise("KeyError")

\* what fetch_data hands to its caller given the outcome of the _fetch_from_* call:
\* every except clause re-raises, and field extraction fails on a body without the fields
fetch_data(req, res) ==
    IF res.kind = "raise" THEN Raise(res.error)
    ELSE IF req.widget = "google_news"
         THEN IF res.value = FeedText THEN Return(res.value) ELSE Raise("ParseError")
         ELSE IF res.value = FullDict THEN Return(res.value) ELSE Raise("KeyError")

-----------------------------------------------------------------------------
(* Callers that run side by side on the one module-level instance *)

Threads == {1, 2}

\* a caller outside the fetch function; network_calls and result are those of
\* its latest invocation
IdleThread == [pc |-> "idle", request |-> NoRequest, cached |-> None, data |-> None,
               attempt_number |-> 0, network_calls |-> 0, calls |-> 0,
               failures |-> 0, result |-> NoResult]

\* invocations started and attempts failed so far, over all callers
ThreadCalls == threads[1].calls + threads[2].calls
ThreadFailures == threads[1].failures + threads[2].failures

\* an absent optional field (Python's None)
Null == "None"

\* a URLMetadata record none of whose optional fields was found
NoMetadata == [image |-> Null, description |-> Null, favicon |-> Null, site_name |-> Null]

\* no call of normalize_url, extract, an enriching fetch_data or
\* resolve_google_news_url has been made
NormIdle == input_url = <<>> /\ norm_pc = "start" /\ clean_url = <<>>
ExtractIdle ==
    /\ extract_url = <<>>
    /\ metadata_cache = <<>>
    /\ today = 0
    /\ extract_result = [call |-> 0, kind |-> "none", record |-> NoMetadata]
    /\ extract_network_calls = 0
WidgetIdle ==
    /\ widget = "none"
    /\ feed = <<>>
    /\ extracted = <<>>
    /\ posts = <<>>
    /\ widget_result = "none"
ResolveIdle ==
    /\ google_rss_url = <<>>
    /\ page = "none"
    /\ reply = "none"
    /\ resolve_result = [kind |-> "none", value |-> <<>>, error |-> "none", sleeps |-> 0,
                         network_calls |-> 0]

\* no call of get_cache_key has been made
KeyIdle ==
    /\ first_instance = <<>>
    /\ second_instance = <<>>
    /\ first_key = <<>>
    /\ second_key = <<>>
    /\ key_pc = "start"

\* no Cache has been constructed
NoOp == [op |-> "none", key |-> <<>>, update_minutes |-> 0, value |-> FALSE, raised |-> FALSE]
StampIdle ==
    /\ timestamps = <<>>
    /\ cache_file = [kind |-> "absent", map |-> <<>>]
    /\ clock = 0
    /\ marked_at = <<>>
    /\ last_saved = [kind |-> "none", map |-> <<>>]
    /\ last_op = NoOp

\* main has not been entered
CliIdle ==
    /\ argv = <<>>
    /\ cli_pc = "start"
    /\ stage_log = <<>>
    /\ exit_status = -1

\* render_ai_all has not been entered
NoPage == [load |-> "none", enabled |-> FALSE, widgets |-> <<>>, generate |-> "none"]
NotWritten == [file |-> "none", sections |-> <<>>]
RenderIdle ==
    /\ page_count = 0
    /\ page_index = 0
    /\ rendered_pages = 0
    /\ failed_pages = 0
    /\ current_page = NoPage
    /\ written = NotWritten
    /\ render_pc = "start"

\* no relative time has been formatted
NoText == [n |-> 0, unit |-> "none"]
AgoIdle ==
    /\ ago_timestamp = 0
    /\ ago_now = 0
    /\ timestamp_ago_text = NoText
    /\ time_ago_text = NoText
    /\ ago_pc = "start"
LateIdle == KeyIdle /\ StampIdle /\ CliIdle /\ RenderIdle /\ AgoIdle

-----------------------------------------------------------------------------
(* State machine *)

Init ==
    /\ now = 0
    /\ cache = EmptyCache
    /\ pc = "idle"
    /\ request = NoRequest
    /\ cache_key = <<>>
    /\ attempt_number = 0
    /\ cached = None
    /\ age = -1
    /\ network_calls = 0
    /\ sleeps = <<>>
    /\ errors = <<>>
    /\ result = NoResult
    /\ fetch_data_result = NoResult
    /\ calls = 0
    /\ failures = 0
    /\ imported = TRUE
    /\ threads = [t \in Threads |-> IdleThread]
    /\ NormIdle /\ ExtractIdle /\ WidgetIdle /\ ResolveIdle /\ LateIdle

\* a widget's fetch_data is called: the retrying wrapper starts attempt 1
Call(req) ==
    /\ pc = "idle"
    /\ calls < MaxCalls
    /\ pc' = "running"
    /\ request' = req
    /\ cache_key' = CacheKey(req)
    /\ attempt_number' = 1
    /\ calls' = calls + 1
    /\ UNCHANGED <<now, cache, cached, age, network_calls, sleeps, errors, result,
                   fetch_data_result, failures>>
    /\ UNCHANGED <<sharedVars, otherVars>>

\* one attempt whose cache lookup is truthy: return cached
AttemptHit ==
    /\ pc = "running"
    /\ LET got == URLCache_get(cache, cache_key, now) IN
       /\ Truthy(got)
       /\ cached' = got
       /\ age' = URLCache_get_age(cache, cache_key, now)
       /\ cache' = URLCache_get_cache(cache, cache_key, now)
       /\ result' = Return(got)
       /\ fetch_data_result' = fetch_data(request, Return(got))
    /\ pc' = "done"
    /\ UNCHANGED <<now, request, cache_key, attempt_number, network_calls, sleeps,
                   errors, calls, failures>>
    /\ UNCHANGED <<sharedVars, otherVars>>

\* one attempt whose cache lookup is falsy and whose request succeeds
AttemptFetchOk(o) ==
    /\ pc = "running"
    /\ o \in Outcomes(request) /\ o.ok
    /\ LET got == URLCache_get(cache, cache_key, now) IN
       /\ ~Truthy(got)
       /\ cached' = got
       /\ age' = URLCache_get_age(cache, cache_key, now)
    /\ network_calls' = network_calls + 1
    /\ cache' = URLCache_set(URLCache_get_cache(cache, cache_key, now), cache_key, o.data, now)
    /\ result' = Return(o.data)
    /\ fetch_data_result' = fetch_data(request, Return(o.data))
    /\ pc' = "done"
    /\ UNCHANGED <<now, request, cache_key, attempt_number, sleeps, errors, calls,
                   failures>>
    /\ UNCHANGED <<sharedVars, otherVars>>

AttemptFetchFail_caching(o) ==
    /\ pc = "running"
    /\ o \in Outcomes(request) /\ ~o.ok
    /\ failures < MaxFailures
    /\ failures' = failures + 1
    /\ LET got == URLCache_get(cache, cache_key, now) IN
       /\ ~Truthy(got)
       /\ cached' = got
       /\ age' = URLCache_get_age(cache, cache_key, now)
    /\ network_calls' = network_calls + 1
    /\ cache' = URLCache_set(URLCache_get_cache(cache, cache_key, now), cache_key, o.data, now)
    /\ errors' = Append(errors, o.error)
    /\ IF stop_after_attempt(attempt_number) \/ ~retry_if_exception(o.error)
       THEN /\ result' = Raise(o.error)
            /\ fetch_data_result' = fetch_data(request, Raise(o.error))
            /\ pc' = "done"
            /\ UNCHANGED <<now, sleeps, attempt_number>>
       ELSE /\ now' = now + wait_exponential(attempt_number)
            /\ sleeps' = Append(sleeps, wait_exponential(attempt_number))
            /\ attempt_number' = attempt_number + 1
            /\ UNCHANGED <<result, fetch_data_result, pc>>
    /\ UNCHANGED <<request, cache_key, calls>>
    /\ UNCHANGED <<sharedVars, otherVars>>

\* one attempt whose cache lookup is falsy and whose request or decoding raises:
\* tenacity retries any exception, sleeping first, until stop_after_attempt
AttemptFetchFail(o) ==
    /\ pc = "running"
    /\ o \in Outcomes(request) /\ ~o.ok
    /\ failures < MaxFailures
    /\ failures' = failures + 1
    /\ LET got == URLCache_get(cache, cache_key, now) IN
       /\ ~Truthy(got)
       /\ cached' = got
       /\ age' = URLCache_get_age(cache, cache_key, now)
    /\ network_calls' = network_calls + 1
    /\ cache' = URLCache_get_cache(cache, cache_key, now)
    /\ errors' = Append(errors, o.error)
    /\ IF stop_after_attempt(attempt_number) \/ ~retry_if_exception(o.error)
       THEN /\ result' = Raise(o.error)
            /\ fetch_data_result' = fetch_data(request, Raise(o.error))
            /\ pc' = "done"
            /\ UNCHANGED <<now, sleeps, attempt_number>>
       ELSE /\ now' = now + wait_exponential(attempt_number)
            /\ sleeps' = Append(sleeps, wait_exponential(attempt_number))
            /\ attempt_number' = attempt_number + 1
            /\ UNCHANGED <<result, fetch_data_result, pc>>
    /\ UNCHANGED <<request, cache_key, calls>>
    /\ UNCHANGED <<sharedVars, otherVars>>

\* fetch_data's frame is left: its caller has the outcome, the locals are gone
Finish ==
    /\ pc = "done"
    /\ pc' = "idle"
    /\ request' = NoRequest
    /\ cache_key' = <<>>
    /\ attempt_number' = 0
    /\ cached' = None
    /\ age' = -1
    /\ network_calls' = 0
    /\ sleeps' = <<>>
    /\ errors' = <<>>
    /\ result' = NoResult
    /\ fetch_data_result' = NoResult
    /\ UNCHANGED <<now, cache, calls, failures>>
    /\ UNCHANGED <<sharedVars, otherVars>>

ClearCache_expired_only ==
    /\ pc = "idle"
    /\ cache # EmptyCache
    /\ cache' = [k \in {j \in DOMAIN cache : Fresh(cache[j][2], now)} |-> cache[k]]
    /\ UNCHANGED <<now, pc, request, cache_key, attempt_number, cached, age, network_calls,
                   sleeps, errors, result, fetch_data_result, calls, failures>>
    /\ UNCHANGED <<sharedVars, otherVars>>

\* clear_cache()
ClearCache ==
    /\ pc = "idle"
    /\ cache # EmptyCache
    /\ cache' = EmptyCache
    /\ UNCHANGED <<now, pc, request, cache_key, attempt_number, cached, age, network_calls,
                   sleeps, errors, result, fetch_data_result, calls, failures>>
    /\ UNCHANGED <<sharedVars, otherVars>>

\* the clock advances
Tick(d) ==
    /\ pc = "idle"
    /\ now + d <= MaxTime
    /\ now' = now + d
    /\ UNCHANGED <<cache, pc, request, cache_key, attempt_number, cached, age, network_calls,
                   sleeps, errors, result, fetch_data_result, calls, failures>>
    /\ UNCHANGED <<sharedVars, otherVars>>

Next ==
    \/ \E req \in Requests : Call(req)
    \/ AttemptHit
    \/ \E o \in Outcomes(request) : AttemptFetchOk(o)
    \/ \E o \in Outcomes(request) : AttemptFetchFail(o)
    \/ Finish
    \/ ClearCache
    \/ \E d \in TickSteps : Tick(d)

Spec == Init /\ [][Next]_vars

TypeOK ==
    /\ now \in Nat
    /\ pc \in {"idle", "running", "done"}
    /\ attempt_number \in 0..MAX_ATTEMPTS
    /\ calls \in 0..MaxCalls
    /\ \A k \in DOMAIN cache : cache[k][2] <= now

-----------------------------------------------------------------------------
(* The module-level instance under callers that interleave: the fetch       *)
(* function of each caller runs statement by statement, check, fetch, store, *)
(* and nothing in http_cache.py or in the widgets takes a lock.             *)

\* the interpreter has started, fathom_deck.core.http_cache is not imported yet
InitShared ==
    /\ now = 0
    /\ cache = EmptyCache
    /\ pc = "idle"
    /\ request = NoRequest
    /\ cache_key = <<>>
    /\ attempt_number = 0
    /\ cached = None
    /\ age = -1
    /\ network_calls = 0
    /\ sleeps = <<>>
    /\ errors = <<>>
    /\ result = NoResult
    /\ fetch_data_result = NoResult
    /\ calls = 0
    /\ failures = 0
    /\ imported = FALSE
    /\ threads = [t \in Threads |-> IdleThread]
    /\ NormIdle /\ ExtractIdle /\ WidgetIdle /\ ResolveIdle /\ LateIdle

\* import of the module runs `_url_cache = URLCache()`
Import ==
    /\ ~imported
    /\ imported' = TRUE
    /\ cache' = EmptyCache
    /\ UNCHANGED <<now, threads, fetchVars, otherVars>>

Enter_new_instance(t, req) ==
    /\ imported
    /\ threads[t].pc = "idle"
    /\ ThreadCalls < MaxThreadCalls
    /\ threads' = [threads EXCEPT ![t] =
           [IdleThread EXCEPT !.pc = "lookup", !.request = req, !.attempt_number = 1,
                              !.calls = threads[t].calls + 1,
                              !.failures = threads[t].failures]]
    /\ cache' = EmptyCache
    /\ UNCHANGED <<now, imported, fetchVars, otherVars>>

\* caller t enters the retried fetch function of a widget
Enter(t, req) ==
    /\ imported
    /\ threads[t].pc = "idle"
    /\ ThreadCalls < MaxThreadCalls
    /\ threads' = [threads EXCEPT ![t] =
           [IdleThread EXCEPT !.pc = "lookup", !.request = req, !.attempt_number = 1,
                              !.calls = threads[t].calls + 1,
                              !.failures = threads[t].failures]]
    /\ UNCHANGED <<now, cache, imported, fetchVars, otherVars>>

GetCached_single_flight(t) ==
    /\ threads[t].pc = "lookup"
    /\ LET key == CacheKey(threads[t].request)
           got == URLCache_get(cache, key, now)
           busy == \E u \in Threads \ {t} :
                       /\ threads[u].pc \in {"request", "store"}
                       /\ CacheKey(threads[u].request) = key
       IN /\ cache' = URLCache_get_cache(cache, key, now)
          /\ threads' = [threads EXCEPT ![t] =
                 IF Truthy(got) \/ busy
                 THEN [@ EXCEPT !.pc = "idle", !.cached = got, !.result = Return(got)]
                 ELSE [@ EXCEPT !.pc = "request", !.cached = got]]
    /\ UNCHANGED <<now, imported, fetchVars, otherVars>>

\* cached = get_cached(cache_key); if cached: return cached
GetCached(t) ==
    /\ threads[t].pc = "lookup"
    /\ LET key == CacheKey(threads[t].request)
           got == URLCache_get(cache, key, now)
       IN /\ cache' = URLCache_get_cache(cache, key, now)
          /\ threads' = [threads EXCEPT ![t] =
                 IF Truthy(got)
                 THEN [@ EXCEPT !.pc = "idle", !.cached = got, !.result = Return(got)]
                 ELSE [@ EXCEPT !.pc = "request", !.cached = got]]
    /\ UNCHANGED <<now, imported, fetchVars, otherVars>>

\* requests.get, raise_for_status and the decoding of the body; a failure is
\* retried by tenacity after its wait, the third one is re-raised
RequestsGet(t, o) ==
    /\ threads[t].pc = "request"
    /\ o \in Outcomes(threads[t].request)
    /\ ~o.ok => ThreadFailures < MaxThreadFailures
    /\ LET n == threads[t].attempt_number IN
       IF o.ok
       THEN /\ threads' = [threads EXCEPT ![t] =
                   [@ EXCEPT !.pc = "store", !.data = o.data,
                             !.network_calls = @ + 1]]
            /\ now' = now
       ELSE IF stop_after_attempt(n) \/ ~retry_if_exception(o.error)
       THEN /\ threads' = [threads EXCEPT ![t] =
                   [@ EXCEPT !.pc = "idle", !.network_calls = @ + 1,
                             !.failures = @ + 1, !.result = Raise(o.error)]]
            /\ now' = now
       ELSE /\ threads' = [threads EXCEPT ![t] =
                   [@ EXCEPT !.pc = "lookup", !.network_calls = @ + 1,
                             !.failures = @ + 1, !.attempt_number = n + 1]]
            /\ now' = now + wait_exponential(n)
    /\ UNCHANGED <<cache, imported, fetchVars, otherVars>>

\* cache_response(cache_key, data); return data
CacheResponse(t) ==
    /\ threads[t].pc = "store"
    /\ cache' = URLCache_set(cache, CacheKey(threads[t].request), threads[t].data, now)
    /\ threads' = [threads EXCEPT ![t] =
           [@ EXCEPT !.pc = "idle", !.data = None, !.result = Return(threads[t].data)]]
    /\ UNCHANGED <<now, imported, fetchVars, otherVars>>

NextShared ==
    \/ Import
    \/ \E t \in Threads, req \in Requests : Enter(t, req)
    \/ \E t \in Threads : GetCached(t)
    \/ \E t \in Threads : \E o \in Outcomes(threads[t].request) : RequestsGet(t, o)
    \/ \E t \in Threads : CacheResponse(t)
    \/ ClearCache
    \/ \E d \in TickSteps : Tick(d)

SpecShared == InitShared /\ [][NextShared]_vars

-----------------------------------------------------------------------------
(* Properties *)

\* the entry of the key being fetched is in the cache and younger than the ttl
LiveEntry == cache_key \in DOMAIN cache /\ now - cache[cache_key][2] < ttl_seconds

\* C1: whenever an attempt of the cached fetch path finds an entry of its key
\* that is younger than the ttl, whatever its payload (empty object and empty
\* text included), the attempt makes no network request and returns exactly
\* the stored payload.
C1_RepeatWithinTtlServedFromCache ==
    [][(pc = "running" /\ LiveEntry)
          => /\ network_calls' = network_calls
             /\ result' = Return(cache[cache_key][1])]_vars

\* C2: a lookup returns the stored payload if and only if the entry's age is
\* below 180 s; at any age >= 180 s (180 s exactly included) the lookup
\* returns None and the caller performs a network request.
C2_ValidIffYoungerThanTtl ==
    [][(pc = "running" /\ cache_key \in DOMAIN cache)
          => LET entry == cache[cache_key] IN
             /\ (cached' = entry[1]) <=> (now - entry[2] < 180)
             /\ (now - entry[2] >= 180)
                   => /\ cached' = None
                      /\ network_calls' = network_calls + 1]_vars

\* an entry whose age was exactly the ttl was looked up, treated as absent and refetched
C2_Witness ==
    /\ pc = "done"
    /\ age = 180
    /\ cached = None
    /\ network_calls >= 1

\* C3: an invocation makes at most 3 attempts: every attempt before the
\* current one failed, a success ends the invocation at once, and after a
\* third failure the invocation is over with the error raised.
C3_AtMostThreeAttempts ==
    /\ attempt_number <= 3
    /\ network_calls <= 3
    /\ Len(errors) <= 3
    /\ pc = "running" => Len(errors) = attempt_number - 1
    /\ (pc = "done" /\ result.kind = "return") => Len(errors) = attempt_number - 1
    /\ Len(errors) = 3 => (pc = "done" /\ result.kind = "raise" /\ attempt_number = 3)

\* three attempts failed and the invocation ended
C3_Witness ==
    /\ pc = "done"
    /\ Len(errors) = 3
    /\ network_calls = 3

\* C4: when all 3 attempts fail, the _fetch_from_* call and fetch_data both
\* raise the error of the third attempt; nothing is returned in its place.
C4_LastErrorReraised ==
    Len(errors) = 3
        => /\ result = Raise(errors[3])
           /\ fetch_data_result = Raise(errors[3])
           /\ fetch_data_result.kind # "return"

\* three attempts failed with different errors, over an entry that had been cached
C4_Witness ==
    /\ pc = "done"
    /\ Len(errors) = 3
    /\ errors[3] # errors[1]
    /\ errors[3] # errors[2]
    /\ age >= 0

\* attempts 1 and 2 failed with a connection error and attempt 3 got a response
C5_TwoConnectionErrorsThenSuccess ==
    /\ pc = "done"
    /\ errors = <<"ConnectionError", "ConnectionError">>
    /\ network_calls = 3

C6_MalformedJsonNotRetried ==
    \A i \in 1..Len(errors) :
        errors[i] = "JSONDecodeError"
            => /\ i = Len(errors)
               /\ pc = "done"
               /\ result = Raise("JSONDecodeError")
               /\ Len(sleeps) = i - 1

\* C7: after a failed attempt caused by a 4xx or 5xx status, a connection
\* error or a timeout, with fewer than 3 attempts made, another attempt is
\* made: the invocation does not end by raising.
C7_FailuresAreRetried ==
    LET n == Len(errors) IN
    (n >= 1 /\ n < 3 /\
     errors[n] \in {"HTTPError4xx", "HTTPError5xx", "ConnectionError", "Timeout"})
        => /\ attempt_number = n + 1
           /\ Len(sleeps) = n
           /\ result.kind # "raise"
           /\ pc = "running" \/ result.kind = "return"

\* a 4xx answer on attempt 1 and a timeout on attempt 2 led to attempt 3
C7_Witness ==
    /\ pc = "running"
    /\ errors = <<"HTTPError4xx", "Timeout">>
    /\ attempt_number = 3

\* the step is an attempt that failed
FailedAttemptStep == pc = "running" /\ Len(errors') = Len(errors) + 1

\* some entry of cache' is new or differs from the one cache held
EntryWritten ==
    \E k \in DOMAIN cache' : k \notin DOMAIN cache \/ cache'[k] # cache[k]

\* C8 (as claimed): an entry is written only by an attempt that got and
\* decoded a response, and a failed attempt leaves the cache map unchanged.
C8_FailedAttemptLeavesCacheUnchanged ==
    [][/\ EntryWritten
            => /\ pc = "running"
               /\ network_calls' = network_calls + 1
               /\ result'.kind = "return"
               /\ cache'[cache_key] = <<result'.value, now>>
       /\ FailedAttemptStep => cache' = cache]_vars

\* C8 (amended): an entry is written only by an attempt that got and decoded
\* a response; a failed attempt writes no entry and changes the cache map at
\* most by deleting the expired entry of its own key, so that the next lookup
\* of that key still finds nothing to serve.
C8_FailedAttemptWritesNothing ==
    [][/\ EntryWritten
            => /\ pc = "running"
               /\ network_calls' = network_calls + 1
               /\ result'.kind = "return"
               /\ cache'[cache_key] = <<result'.value, now>>
       /\ FailedAttemptStep
            => /\ ~EntryWritten
               /\ \A k \in DOMAIN cache \ DOMAIN cache' :
                      k = cache_key /\ now - cache[k][2] >= 180
               /\ \/ cache_key \notin DOMAIN cache'
                  \/ now' - cache'[cache_key][2] >= 180
                  \/ Len(cache'[cache_key][1].items) = 0]_vars

\* the first attempt found an expired entry of its key, deleted it and failed
C8_Witness ==
    /\ pc = "running"
    /\ Len(errors) = 1
    /\ age >= 180
    /\ cache_key \notin DOMAIN cache

\* the lexical rank of the parameter names the widgets use
NameRank(name) ==
    CASE name = "ceid" -> 1
      [] name = "gl" -> 2
      [] name = "hl" -> 3
      [] name = "q" -> 4

Ascending(names) ==
    \A i \in 1..Len(names) - 1 : NameRank(names[i]) < NameRank(names[i + 1])

ParamSet(req) == {RequestParams(req)[i] : i \in 1..Len(RequestParams(req))}

\* C9: the key of the request being fetched lists its parameters in ascending
\* order of their names, and any request to the same URL has the same key
\* exactly when it has the same set of parameter name/value pairs.
C9_KeySortedAndInjective ==
    pc = "running"
        => /\ Ascending(KeyParamNames(request))
           /\ \A r \in Requests :
                  RequestUrl(r) = RequestUrl(request)
                      => ((ParamSet(r) = ParamSet(request)) <=> (CacheKey(r) = cache_key))

\* C10: apart from clear_cache(), no step removes or alters an entry other
\* than the one of the key being looked up, no step removes an entry younger
\* than the ttl, and the lookup of a key with an expired entry removes that
\* entry (the same attempt may then store a new one): the passing of time,
\* set() and lookups of other keys evict nothing.
C10_LazyEvictionOnly ==
    [][ClearCache \/
       \A k \in DOMAIN cache :
           /\ (pc # "running" \/ k # cache_key)
                 => (k \in DOMAIN cache' /\ cache'[k] = cache[k])
           /\ now - cache[k][2] < 180 => k \in DOMAIN cache'
           /\ (pc = "running" /\ k = cache_key /\ now - cache[k][2] >= 180)
                 => (k \notin DOMAIN cache' \/ cache'[k][2] = now)]_vars

\* a lookup deleted the expired entry of its key while the expired entry of
\* another key stayed in the map
C10_Witness ==
    /\ pc = "running"
    /\ age >= 180
    /\ cache_key \notin DOMAIN cache
    /\ \E k \in DOMAIN cache : now - cache[k][2] >= 180

-----------------------------------------------------------------------------
(* clear_cache and the shared instance *)

\* every key a widget can compute
Keys == {CacheKey(req) : req \in Requests}

\* C11: a step that changes the cache outside an attempt (clear_cache) leaves
\* it with no entry at all; the lookup of a key that has no entry returns None;
\* and a key that has no entry gets one only by the set() of a successful
\* attempt for that key, stamped with the current time.
C11_ClearedKeysAbsentUntilSet ==
    [][/\ (pc = "idle" /\ cache' # cache) => cache' = EmptyCache
       /\ \A k \in Keys :
             k \notin DOMAIN cache =>
               /\ URLCache_get(cache, k, now) = None
               /\ k \in DOMAIN cache' =>
                     /\ pc = "running" /\ k = cache_key
                     /\ network_calls' = network_calls + 1
                     /\ errors' = errors
                     /\ cache'[k][2] = now]_vars

\* two invocations were made without a failure and without time passing, the
\* second found no entry for its key and stored one, and only that entry is in
\* the cache: the entry the first invocation stored was cleared in between
C11_Witness ==
    /\ calls = 2 /\ failures = 0 /\ now = 0
    /\ pc = "done"
    /\ age = -1 /\ cached = None /\ network_calls = 1
    /\ DOMAIN cache = {cache_key}

\* the key caller t is working on
KeyOf(t) == CacheKey(threads[t].request)

\* C12 as written: the instance is constructed lazily on first use, so while
\* it exists some caller has already entered a fetch function.
C12_ConstructedLazilyOnFirstUse ==
    imported => \E t \in Threads : threads[t].calls > 0

\* C12: the instance is constructed once, by the import of the module and
\* before any use; entering a fetch function constructs nothing and leaves the
\* map as it is; the lookup of any caller is answered from the one map, with
\* the payload of the entry of its key whoever stored it, when that entry is
\* younger than the ttl; and the store of any caller writes into that map,
\* leaving the entries of the other keys alone.
C12_OneSharedInstanceBuiltAtImport ==
    [][/\ (~imported /\ imported') =>
             (cache' = EmptyCache /\ \A t \in Threads : threads[t].calls = 0)
       /\ imported => imported'
       /\ \A t \in Threads :
             /\ threads'[t].calls # threads[t].calls => (imported /\ cache' = cache)
             /\ (threads[t].pc = "lookup" /\ threads'[t] # threads[t]
                    /\ KeyOf(t) \in DOMAIN cache
                    /\ now - cache[KeyOf(t)][2] < ttl_seconds)
                  => threads'[t].cached = cache[KeyOf(t)][1]
             /\ (threads[t].pc = "store" /\ threads'[t] # threads[t])
                  => /\ cache'[KeyOf(t)] = <<threads[t].data, now>>
                     /\ \A k \in DOMAIN cache \ {KeyOf(t)} :
                           k \in DOMAIN cache' /\ cache'[k] = cache[k]]_vars

\* caller 2, a google_news widget with other parameters than caller 1's, got
\* the feed without a request of its own: the entry it was served is the one
\* caller 1 fetched and stored
C12_Witness ==
    /\ threads[1].calls = 1 /\ threads[2].calls = 1
    /\ threads[1].request # threads[2].request
    /\ threads[1].pc = "idle" /\ threads[1].network_calls = 1
    /\ threads[2].pc = "idle" /\ threads[2].network_calls = 0
    /\ threads[2].result = Return(FeedText)

\* C13: nothing serialises check, fetch and store: a caller whose lookup
\* finds no usable entry goes on to the network also while another caller is
\* between its own miss and its store of the same key, and a caller that
\* fetches or stores has observed a miss.
C13_MissDuringFetchInFlightFetchesToo ==
    [][\A t \in Threads :
         /\ (threads[t].pc = "lookup" /\ threads'[t] # threads[t]
                /\ ~Truthy(URLCache_get(cache, KeyOf(t), now)))
              => threads'[t].pc = "request"
         /\ threads'[t].pc \in {"request", "store"} => ~Truthy(threads'[t].cached)]_vars

\* both callers observed a miss for the same key and both have fetched it, at
\* one instant and so within one ttl window; neither has stored yet
C13_Witness ==
    /\ threads[1].pc = "store" /\ threads[2].pc = "store"
    /\ KeyOf(1) = KeyOf(2)
    /\ ~Truthy(threads[1].cached) /\ ~Truthy(threads[2].cached)
    /\ threads[1].network_calls = 1 /\ threads[2].network_calls = 1
    /\ now < ttl_seconds

-----------------------------------------------------------------------------
(* URLs (core/utils.py).  A URL is the sequence of its pieces: the          *)
(* delimiters ":", "//", "?", "&", "=", "#" and the text between them.       *)

\* index of the first occurrence of tok in s, 0 when there is none
IndexOf(s, tok) ==
    IF \E i \in 1..Len(s) : s[i] = tok
    THEN CHOOSE i \in 1..Len(s) : s[i] = tok /\ \A j \in 1..(i - 1) : s[j] # tok
    ELSE 0

\* s.split(tok)
RECURSIVE Split(_, _)
Split(s, tok) ==
    LET i == IndexOf(s, tok) IN
    IF i = 0 THEN <<s>>
    ELSE <<SubSeq(s, 1, i - 1)>> \o Split(SubSeq(s, i + 1, Len(s)), tok)

\* tok.join(parts)
RECURSIVE Join(_, _)
Join(parts, tok) ==
    IF parts = <<>> THEN <<>>
    ELSE IF Len(parts) = 1 THEN parts[1]
    ELSE parts[1] \o <<tok>> \o Join(Tail(parts), tok)

\* pieces that are made of scheme characters only, and str.lower() of them
SchemeWords == {"https", "HTTPS"}
Lower(tok) == IF tok = "HTTPS" THEN "https" ELSE tok

\* pieces that end a netloc: the start of a path, of a query, of a fragment
NetlocEnd == {"/a", "?", "#"}

\* urllib.parse.unquote_plus on a piece, and quote_plus on a decoded piece
Unquote(tok) ==
    CASE tok = "%20" -> " "
      [] tok = "+" -> " "
      [] tok = "utm%5Fsource" -> "utm_source"
      [] OTHER -> tok
Quote(tok) ==
    CASE tok = " " -> "+"
      [] tok = "=" -> "%3D"
      [] OTHER -> tok
UnquoteAll(s) == [i \in 1..Len(s) |-> Unquote(s[i])]
QuoteAll(s) == [i \in 1..Len(s) |-> Quote(s[i])]

\* url.partition(tok) without the separator: what is before the first tok
\* and what is after it
SplitAt(s, tok) ==
    LET i == IndexOf(s, tok) IN
    IF i = 0 THEN <<s, <<>> >> ELSE <<SubSeq(s, 1, i - 1), SubSeq(s, i + 1, Len(s))>>

\* urlsplit, the scheme: what is before the first ":" when it is made of scheme
\* characters, lower-cased, and the rest
SplitScheme(u) ==
    LET i == IndexOf(u, ":") IN
    IF i > 1 /\ \A j \in 1..(i - 1) : u[j] \in SchemeWords
    THEN <<[j \in 1..(i - 1) |-> Lower(u[j])], SubSeq(u, i + 1, Len(u))>>
    ELSE << <<>>, u>>

\* urlsplit, the netloc: after a leading "//", up to the first piece that
\* starts a path, a query or a fragment
NetlocStop(rest) ==
    IF \E j \in 2..Len(rest) : rest[j] \in NetlocEnd
    THEN CHOOSE j \in 2..Len(rest) :
            rest[j] \in NetlocEnd /\ \A k \in 2..(j - 1) : rest[k] \notin NetlocEnd
    ELSE Len(rest) + 1
SplitNetlocAt(rest, stop) == <<SubSeq(rest, 2, stop - 1), SubSeq(rest, stop, Len(rest))>>
SplitNetloc(rest) ==
    IF Len(rest) >= 1 /\ rest[1] = "//" THEN SplitNetlocAt(rest, NetlocStop(rest))
    ELSE << <<>>, rest>>

\* urlparse(url): the five parts normalize_url and is_valid_url look at, or
\* the ValueError urlsplit raises for a netloc with an unmatched bracket
ParseResult(scheme, netloc, path_query, fragment) ==
    [raises |-> (IndexOf(netloc, "[") # 0) # (IndexOf(netloc, "]") # 0),
     scheme |-> scheme, netloc |-> netloc, path |-> path_query[1],
     query |-> path_query[2], fragment |-> fragment]
UrlparseFragment(scheme, netloc, url_fragment) ==
    ParseResult(scheme, netloc, SplitAt(url_fragment[1], "?"), url_fragment[2])
UrlparseNetloc(scheme, netloc_rest) ==
    UrlparseFragment(scheme, netloc_rest[1], SplitAt(netloc_rest[2], "#"))
UrlparseScheme(scheme_rest) == UrlparseNetloc(scheme_rest[1], SplitNetloc(scheme_rest[2]))
urlparse(u) == UrlparseScheme(SplitScheme(u))

\* all([result.scheme, result.netloc]), False when urlparse raised
SchemeAndNetloc(parts) ==
    IF parts.raises THEN FALSE
    ELSE parts.scheme # <<>> /\ parts.netloc # <<>>

is_valid_url_scheme_only(u) == urlparse(u).scheme # <<>>

\* is_valid_url(url)
is_valid_url(u) == SchemeAndNetloc(urlparse(u))

\* the name=value pairs of a query string as parse_qsl yields them with
\* keep_blank_values=False: a pair without "=" or with an empty value is left
\* out, names and values are percent-decoded
RECURSIVE parse_qsl(_)
parse_qsl(pairs) ==
    IF pairs = <<>> THEN <<>>
    ELSE LET name_value == Head(pairs)
             k == IndexOf(name_value, "=")
             name == SubSeq(name_value, 1, k - 1)
             value == SubSeq(name_value, k + 1, Len(name_value))
         IN  (IF name_value = <<>> \/ k = 0 \/ value = <<>> THEN <<>>
              ELSE << <<UnquoteAll(name), UnquoteAll(value)>> >>)
             \o parse_qsl(Tail(pairs))

\* parse_qs(qs): a dict name -> list of values, in the order the names first
\* occur; a repeated name appends to the list of its first occurrence
RECURSIVE parse_qs_dict(_, _)
parse_qs_dict(d, pairs) ==
    IF pairs = <<>> THEN d
    ELSE LET name == Head(pairs)[1]
             value == Head(pairs)[2]
             at == {i \in 1..Len(d) : d[i][1] = name}
         IN  parse_qs_dict(
                 IF at = {} THEN Append(d, <<name, <<value>> >>)
                 ELSE [i \in 1..Len(d) |->
                          IF i \in at THEN <<name, Append(d[i][2], value)>> ELSE d[i]],
                 Tail(pairs))
parse_qs(qs) == parse_qs_dict(<<>>, parse_qsl(Split(qs, "&")))

\* urlencode(query, doseq=True): name=value for every value of every name, in
\* dict order, joined by "&"
RECURSIVE urlencode_pairs(_)
urlencode_pairs(d) ==
    IF d = <<>> THEN <<>>
    ELSE [i \in 1..Len(Head(d)[2]) |->
             QuoteAll(Head(d)[1]) \o <<"=">> \o QuoteAll(Head(d)[2][i])]
         \o urlencode_pairs(Tail(d))
urlencode(d) == Join(urlencode_pairs(d), "&")

tracking_params_without_fbclid ==
    {<<"utm_source">>, <<"utm_medium">>, <<"utm_campaign">>, <<"utm_term">>,
     <<"utm_content">>, <<"gclid">>, <<"msclkid">>, <<"mc_cid">>, <<"mc_eid">>}

tracking_params ==
    {<<"utm_source">>, <<"utm_medium">>, <<"utm_campaign">>, <<"utm_term">>,
     <<"utm_content">>, <<"fbclid">>, <<"gclid">>, <<"msclkid">>, <<"mc_cid">>,
     <<"mc_eid">>}

\* the body of normalize_url once the URL is parsed
FilteredQuery(query_dict) == SelectSeq(query_dict, LAMBDA e : e[1] \notin tracking_params)
CleanQuery(filtered_query) ==
    IF filtered_query # <<>> THEN urlencode(filtered_query) ELSE <<>>
CleanUrl(parsed, clean_query) ==
    parsed.scheme \o <<":", "//">> \o parsed.netloc \o parsed.path
    \o (IF clean_query # <<>> THEN <<"?">> \o clean_query ELSE <<>>)
NormalizeParsed(u, parsed) ==
    IF parsed.raises THEN u
    ELSE CleanUrl(parsed, CleanQuery(FilteredQuery(parse_qs(parsed.query))))

\* normalize_url(url)
normalize_url(u) == NormalizeParsed(u, urlparse(u))

\* the inputs: a head, up to MaxParams query pairs, a fragment or none
Heads ==
    {<<"https", ":", "//", "example.com", "/a">>,
     <<"HTTPS", ":", "//", "example.com">>,
     <<"https", ":", "//", "[", "/a">>,
     <<"https", ":", "/a">>,
     <<"not a url">>}
QueryPairs ==
    {<<"utm_source", "=", "x">>, <<"fbclid", "=", "x">>, <<"utm%5Fsource", "=", "x">>,
     <<"keep", "=", "1">>, <<"a", "=", "%20">>, <<"a", "=", "2">>, <<"b", "=">>}
RECURSIVE PairLists(_)
PairLists(n) ==
    IF n = 0 THEN {<<>>}
    ELSE PairLists(n - 1) \cup
         {Append(l, p) : l \in {m \in PairLists(n - 1) : Len(m) = n - 1}, p \in QueryPairs}
Queries == {<<>>} \cup {<<"?">> \o Join(l, "&") : l \in PairLists(MaxParams) \ {<<>>}}
Fragments == {<<>>, <<"#", "frag">>}
Urls == {h \o q \o f : h \in Heads, q \in Queries, f \in Fragments}

InitNormalize ==
    /\ now = 0
    /\ cache = EmptyCache
    /\ pc = "idle"
    /\ request = NoRequest
    /\ cache_key = <<>>
    /\ attempt_number = 0
    /\ cached = None
    /\ age = -1
    /\ network_calls = 0
    /\ sleeps = <<>>
    /\ errors = <<>>
    /\ result = NoResult
    /\ fetch_data_result = NoResult
    /\ calls = 0
    /\ failures = 0
    /\ imported = TRUE
    /\ threads = [t \in Threads |-> IdleThread]
    /\ input_url \in Urls
    /\ norm_pc = "start"
    /\ clean_url = <<>>
    /\ ExtractIdle /\ WidgetIdle /\ ResolveIdle /\ LateIdle

\* the call normalize_url(url) runs and returns
NormalizeUrl ==
    /\ norm_pc = "start"
    /\ clean_url' = normalize_url(input_url)
    /\ norm_pc' = "returned"
    /\ UNCHANGED <<now, cache, fetchVars, sharedVars, input_url, extractVars, widgetVars,
                   resolveVars, lateVars>>

NextNormalize == NormalizeUrl

SpecNormalize == InitNormalize /\ [][NextNormalize]_vars

\* the name=value pieces of a query string as written, blank values and
\* pieces without "=" included, names and values percent-decoded
RECURSIVE RawPairs(_)
RawPairs(pairs) ==
    IF pairs = <<>> THEN <<>>
    ELSE LET name_value == Head(pairs)
             k == IndexOf(name_value, "=")
         IN  (IF name_value = <<>> THEN <<>>
              ELSE IF k = 0 THEN << <<UnquoteAll(name_value), <<>> >> >>
              ELSE << <<UnquoteAll(SubSeq(name_value, 1, k - 1)),
                        UnquoteAll(SubSeq(name_value, k + 1, Len(name_value)))>> >>)
             \o RawPairs(Tail(pairs))
ParamsOf(u) == RawPairs(Split(urlparse(u).query, "&"))
NonTracking(e) == e[1] \notin tracking_params

\* the example of the specification and its normal form
Example ==
    <<"https", ":", "//", "example.com", "/a", "?", "utm_source", "=", "x", "&",
      "keep", "=", "1", "#", "frag">>
ExampleClean == <<"https", ":", "//", "example.com", "/a", "?", "keep", "=", "1">>

\* C14: for a URL with a scheme and a host, normalize_url returns
\* scheme://host and the path, then "?" and a non-empty query string only if
\* the input has a parameter that is not a tracking parameter; the result has
\* no fragment and none of the ten tracking parameters; the example
\* https://example.com/a?utm_source=x&keep=1#frag gives
\* https://example.com/a?keep=1.
C14_NormalizedShape ==
    (norm_pc = "returned" /\ is_valid_url(input_url)) =>
        LET parsed == urlparse(input_url)
            base == parsed.scheme \o <<":", "//">> \o parsed.netloc \o parsed.path
        IN  /\ Len(clean_url) >= Len(base)
            /\ SubSeq(clean_url, 1, Len(base)) = base
            /\ Len(clean_url) > Len(base) =>
                  /\ clean_url[Len(base) + 1] = "?"
                  /\ Len(clean_url) > Len(base) + 1
                  /\ \E i \in 1..Len(ParamsOf(input_url)) :
                        NonTracking(ParamsOf(input_url)[i])
            /\ IndexOf(clean_url, "#") = 0
            /\ urlparse(clean_url).fragment = <<>>
            /\ \A i \in 1..Len(ParamsOf(clean_url)) :
                  ParamsOf(clean_url)[i][1] \notin
                      {<<"utm_source">>, <<"utm_medium">>, <<"utm_campaign">>,
                       <<"utm_term">>, <<"utm_content">>, <<"fbclid">>, <<"gclid">>,
                       <<"msclkid">>, <<"mc_cid">>, <<"mc_eid">>}
            /\ input_url = Example => clean_url = ExampleClean

\* the example has been normalized
C14_Witness ==
    norm_pc = "returned" /\ input_url = Example /\ clean_url = ExampleClean

\* C15: for a string that is not a URL with a scheme and a host,
\* normalize_url returns exactly the input.
C15_MalformedReturnedUnchanged ==
    (norm_pc = "returned" /\ ~is_valid_url(input_url)) => clean_url = input_url

\* C16: the parameters of the result are the non-tracking parameters of the
\* input, every one of them, those with an empty value and those with a
\* repeated name included, in the order the input has them.
C16_EveryNonTrackingParamKeptInOrder ==
    (norm_pc = "returned" /\ is_valid_url(input_url)) =>
        ParamsOf(clean_url) = SelectSeq(ParamsOf(input_url), NonTracking)

-----------------------------------------------------------------------------
(* The metadata extractor and its 30-day cache (core/url_metadata.py, used  *)
(* through get_url_metadata_extractor().extract(url) by the widgets).  Its   *)
(* steps are those of the specification, sections 4.4 and 4.5; the URL       *)
(* functions it calls are the ones of core/utils.py above.                   *)

\* the records a page can yield
PageRecords ==
    {NoMetadata,
     [image |-> "img", description |-> "desc", favicon |-> "ico", site_name |-> "Site"]}

\* the arguments extract is called with
ExtractUrls ==
    {Example, ExampleClean, <<"HTTPS", ":", "//", "example.com">>,
     <<"not a url">>, <<"https", ":", "/a">>, <<"https", ":", "//", "[", "/a">>}

MetadataFresh_inclusive(cached_at, t) == t - cached_at <= CACHE_DAYS

\* an entry is valid while now - captured_at < 30 days
MetadataFresh(cached_at, t) == t - cached_at < CACHE_DAYS

\* put(url, metadata)
MetadataPut(c, key, record, t) ==
    [k \in DOMAIN c \cup {key} |-> IF k = key THEN <<record, t>> ELSE c[k]]

\* step 1 of extract for each argument: the normalized URL, which is the key
\* of the cache, and whether it is a valid URL
NormalizedOf == [u \in ExtractUrls |-> normalize_url(u)]
ValidOf == [u \in ExtractUrls |-> is_valid_url(NormalizedOf[u])]

InitExtract ==
    /\ now = 0
    /\ cache = EmptyCache
    /\ pc = "idle"
    /\ request = NoRequest
    /\ cache_key = <<>>
    /\ attempt_number = 0
    /\ cached = None
    /\ age = -1
    /\ network_calls = 0
    /\ sleeps = <<>>
    /\ errors = <<>>
    /\ result = NoResult
    /\ fetch_data_result = NoResult
    /\ calls = 0
    /\ failures = 0
    /\ imported = TRUE
    /\ threads = [t \in Threads |-> IdleThread]
    /\ NormIdle /\ ExtractIdle /\ WidgetIdle /\ ResolveIdle /\ LateIdle

\* step 1: the normalized URL is not a valid URL: null, nothing fetched
ExtractInvalid(u) ==
    /\ extract_result.call < MaxExtracts
    /\ ~ValidOf[u]
    /\ extract_url' = u
    /\ extract_result' = [call |-> extract_result.call + 1, kind |-> "null",
                          record |-> NoMetadata]
    /\ extract_network_calls' = 0
    /\ UNCHANGED <<metadata_cache, today>>
    /\ UNCHANGED <<now, cache, fetchVars, sharedVars, normVars, widgetVars, resolveVars,
                   lateVars>>

\* step 2: a fresh entry of the normalized URL is returned at once
ExtractFresh(u) ==
    /\ extract_result.call < MaxExtracts
    /\ ValidOf[u]
    /\ NormalizedOf[u] \in DOMAIN metadata_cache
    /\ MetadataFresh(metadata_cache[NormalizedOf[u]][2], today)
    /\ extract_url' = u
    /\ extract_result' = [call |-> extract_result.call + 1, kind |-> "record",
                          record |-> metadata_cache[NormalizedOf[u]][1]]
    /\ extract_network_calls' = 0
    /\ UNCHANGED <<metadata_cache, today>>
    /\ UNCHANGED <<now, cache, fetchVars, sharedVars, normVars, widgetVars, resolveVars,
                   lateVars>>

\* steps 3 to 5: no entry or a stale one: the page is fetched and parsed, the
\* record is written to the cache with the current date and returned
ExtractFetchOk(u, record) ==
    /\ extract_result.call < MaxExtracts
    /\ ValidOf[u]
    /\ NormalizedOf[u] \in DOMAIN metadata_cache
          => ~MetadataFresh(metadata_cache[NormalizedOf[u]][2], today)
    /\ extract_url' = u
    /\ extract_network_calls' = 1
    /\ metadata_cache' = MetadataPut(metadata_cache, NormalizedOf[u], record, today)
    /\ extract_result' = [call |-> extract_result.call + 1, kind |-> "record",
                          record |-> record]
    /\ UNCHANGED today
    /\ UNCHANGED <<now, cache, fetchVars, sharedVars, normVars, widgetVars, resolveVars,
                   lateVars>>

\* failure policy: the fetch or the parsing fails: nothing is raised, null is
\* returned, or the stale entry when there is one
ExtractFetchFail(u, stale) ==
    /\ extract_result.call < MaxExtracts
    /\ ValidOf[u]
    /\ NormalizedOf[u] \in DOMAIN metadata_cache
          => ~MetadataFresh(metadata_cache[NormalizedOf[u]][2], today)
    /\ stale => NormalizedOf[u] \in DOMAIN metadata_cache
    /\ extract_url' = u
    /\ extract_network_calls' = 1
    /\ extract_result' =
          IF stale
          THEN [call |-> extract_result.call + 1, kind |-> "record",
                record |-> metadata_cache[NormalizedOf[u]][1]]
          ELSE [call |-> extract_result.call + 1, kind |-> "null", record |-> NoMetadata]
    /\ UNCHANGED <<metadata_cache, today>>
    /\ UNCHANGED <<now, cache, fetchVars, sharedVars, normVars, widgetVars, resolveVars,
                   lateVars>>

\* days pass between runs
TickDays(d) ==
    /\ today + d <= MaxDays
    /\ today' = today + d
    /\ UNCHANGED <<extract_url, metadata_cache, extract_result, extract_network_calls>>
    /\ UNCHANGED <<now, cache, fetchVars, sharedVars, normVars, widgetVars, resolveVars,
                   lateVars>>

NextExtract ==
    \/ \E u \in ExtractUrls : ExtractInvalid(u)
    \/ \E u \in ExtractUrls : ExtractFresh(u)
    \/ \E u \in ExtractUrls, record \in PageRecords : ExtractFetchOk(u, record)
    \/ \E u \in ExtractUrls, stale \in BOOLEAN : ExtractFetchFail(u, stale)
    \/ \E d \in DaySteps : TickDays(d)

SpecExtract == InitExtract /\ [][NextExtract]_vars

\* C17: an extract call whose argument, once normalized, lacks a scheme or a
\* host (or does not parse) returns null and fetches nothing, and writes
\* nothing to the metadata cache.
C17_InvalidUrlYieldsNullWithoutFetch ==
    [][extract_result'.call # extract_result.call =>
         LET parts == urlparse(normalize_url(extract_url')) IN
         (parts.raises \/ parts.scheme = <<>> \/ parts.netloc = <<>>) =>
             /\ extract_result'.kind = "null"
             /\ extract_network_calls' = 0
             /\ metadata_cache' = metadata_cache]_vars

\* extract("not a url") has returned null without a fetch
C17_Witness ==
    /\ extract_url = <<"not a url">>
    /\ extract_result.call > 0
    /\ extract_result.kind = "null"
    /\ extract_network_calls = 0

\* C19: an extract call that finds an entry of its normalized URL younger
\* than 30 days returns the record of that entry, fetches nothing and leaves
\* the cache as it is; when the entry is 30 days old or older the call goes
\* to the network instead of answering from the cache alone.
C19_FreshEntryServedWithoutFetch ==
    [][extract_result'.call # extract_result.call =>
         LET key == normalize_url(extract_url') IN
         (is_valid_url(key) /\ key \in DOMAIN metadata_cache) =>
             /\ today - metadata_cache[key][2] < 30 =>
                   /\ extract_result'.kind = "record"
                   /\ extract_result'.record = metadata_cache[key][1]
                   /\ extract_network_calls' = 0
                   /\ metadata_cache' = metadata_cache
             /\ today - metadata_cache[key][2] >= 30 =>
                   extract_network_calls' >= 1]_vars

\* an entry captured 10 days ago was returned, with its fields, without a fetch
C19_Witness ==
    /\ extract_result.call > 1
    /\ extract_result.kind = "record"
    /\ extract_result.record.image = "img"
    /\ extract_network_calls = 0
    /\ normalize_url(extract_url) \in DOMAIN metadata_cache
    /\ today - metadata_cache[normalize_url(extract_url)][2] = 10

-----------------------------------------------------------------------------
(* fetch_data of the widgets that enrich their posts with extract():        *)
(* hackernews_posts.py, peek_deck google_news.py, peek_deck reddit_posts.py. *)

\* what extract can hand back for one link
ExtractNull == [kind |-> "null", record |-> NoMetadata]
ExtractSkipped == [kind |-> "skipped", record |-> NoMetadata]
MetaRecords ==
    {NoMetadata,
     [image |-> "img", description |-> "desc", favicon |-> "ico", site_name |-> "Site"],
     [image |-> "img", description |-> Null, favicon |-> Null, site_name |-> "Site"],
     [image |-> Null, description |-> "desc", favicon |-> "ico", site_name |-> Null],
     [image |-> Null, description |-> Null, favicon |-> "ico", site_name |-> ""]}
ExtractOutcomes == {ExtractNull} \cup {[kind |-> "record", record |-> r] : r \in MetaRecords}

\* Python's truth value of an optional string
TruthyStr(v) == v # Null /\ v # ""

\* `a or b` on optional strings
Or(a, b) == IF TruthyStr(a) THEN a ELSE b

Widgets == {"hackernews", "google_news", "reddit"}

\* the items a primary feed can hold.  link: "external" is a link to another
\* site (for google_news: a redirect URL that resolves), "self" a post without
\* one (for google_news: a redirect URL that does not resolve), "raises" a
\* google_news redirect URL on which resolve_google_news_url raises; text is
\* the text of the entry in the reddit feed
FeedItems(w) ==
    {[title |-> t, link |-> l, text |-> x] :
        t \in {"p", "q"},
        l \in IF w = "google_news" THEN {"external", "self", "raises"}
              ELSE {"external", "self"},
        x \in IF w = "reddit" THEN {Null, "rss"} ELSE {Null}}
RECURSIVE Feeds(_, _)
Feeds(w, n) ==
    IF n = 0 THEN {<<>>}
    ELSE Feeds(w, n - 1) \cup
         {Append(f, i) : f \in {g \in Feeds(w, n - 1) : Len(g) = n - 1}, i \in FeedItems(w)}

\* extract is called for the item: an external link (hackernews_posts.py:96,
\* reddit_posts.py:119), a resolved article_url (google_news.py:142)
ExtractCalled(w, item) == item.link = "external"

\* the post as built from the primary feed, before enrichment
PlainPost(item) ==
    [title |-> item.title, image |-> Null, description |-> item.text, favicon |-> Null,
     site_name |-> Null]

hackernews_post_favicon_always(item, meta) ==
    IF ~ExtractCalled("hackernews", item) \/ meta.kind # "record" THEN PlainPost(item)
    ELSE [title |-> item.title,
          image |-> meta.record.image,
          description |-> meta.record.description,
          site_name |-> meta.record.site_name,
          favicon |-> Or(meta.record.favicon, "get_favicon_url")]

\* hackernews_posts.py:100-111
hackernews_post(item, meta) ==
    IF ~ExtractCalled("hackernews", item) \/ meta.kind # "record" THEN PlainPost(item)
    ELSE [title |-> item.title,
          image |-> meta.record.image,
          description |-> meta.record.description,
          site_name |-> meta.record.site_name,
          favicon |-> IF TruthyStr(meta.record.site_name)
                      THEN Or(meta.record.favicon, "get_favicon_url")
                      ELSE Null]

\* google_news.py:141-150
google_news_article(item, meta) ==
    IF ~ExtractCalled("google_news", item) \/ meta.kind # "record" THEN PlainPost(item)
    ELSE [PlainPost(item) EXCEPT !.image = meta.record.image,
                                 !.description = meta.record.description]

\* reddit_posts.py:118-151; the text of a feed entry is shorter than 50
reddit_post(item, meta) ==
    IF ~ExtractCalled("reddit", item) \/ meta.kind # "record" THEN PlainPost(item)
    ELSE [PlainPost(item) EXCEPT
             !.site_name = Or(meta.record.site_name, "domain"),
             !.favicon = meta.record.favicon,
             !.description = IF TruthyStr(meta.record.description)
                             THEN meta.record.description ELSE item.text]

EnrichedPosts_drop_unenriched(w, f, metas) ==
    SelectSeq([i \in 1..Len(f) |->
                  CASE w = "hackernews" -> hackernews_post(f[i], metas[i])
                    [] w = "google_news" -> google_news_article(f[i], metas[i])
                    [] OTHER -> reddit_post(f[i], metas[i])],
              LAMBDA post : post.image # Null \/ post.description # Null)

\* the posts list of fetch_data: one post per item of the feed, in feed order
EnrichedPosts(w, f, metas) ==
    [i \in 1..Len(f) |->
        CASE w = "hackernews" -> hackernews_post(f[i], metas[i])
          [] w = "google_news" -> google_news_article(f[i], metas[i])
          [] OTHER -> reddit_post(f[i], metas[i])]

InitWidgets ==
    /\ now = 0
    /\ cache = EmptyCache
    /\ pc = "idle"
    /\ request = NoRequest
    /\ cache_key = <<>>
    /\ attempt_number = 0
    /\ cached = None
    /\ age = -1
    /\ network_calls = 0
    /\ sleeps = <<>>
    /\ errors = <<>>
    /\ result = NoResult
    /\ fetch_data_result = NoResult
    /\ calls = 0
    /\ failures = 0
    /\ imported = TRUE
    /\ threads = [t \in Threads |-> IdleThread]
    /\ NormIdle /\ ExtractIdle /\ ResolveIdle /\ LateIdle
    /\ widget \in Widgets
    /\ feed \in Feeds(widget, MaxPosts)
    /\ extracted = <<>>
    /\ posts = <<>>
    /\ widget_result = "none"

\* fetch_data after the primary feed is parsed: google_news first resolves
\* every redirect URL, and an exception of the resolver leaves fetch_data
\* through its `except ... raise`; then extract is called link by link
FetchData(metas) ==
    /\ widget_result = "none"
    /\ DOMAIN metas = 1..Len(feed)
    /\ \A i \in 1..Len(feed) :
          metas[i] = ExtractSkipped <=> ~ExtractCalled(widget, feed[i])
    /\ IF \E i \in 1..Len(feed) : feed[i].link = "raises"
       THEN /\ widget_result' = "raise"
            /\ UNCHANGED <<extracted, posts>>
       ELSE /\ widget_result' = "return"
            /\ extracted' = metas
            /\ posts' = EnrichedPosts(widget, feed, metas)
    /\ UNCHANGED <<widget, feed>>
    /\ UNCHANGED <<now, cache, fetchVars, sharedVars, normVars, extractVars, resolveVars,
                   lateVars>>

NextWidgets ==
    \E metas \in [1..Len(feed) -> ExtractOutcomes \cup {ExtractSkipped}] : FetchData(metas)

SpecWidgets == InitWidgets /\ [][NextWidgets]_vars

\* C18: once fetch_data has called extract and got null for some link, it has
\* returned, its list has one post per item of the feed in feed order, and a
\* post whose link got null has the fields it had before enrichment: no image,
\* no favicon, no site name, and no description but the feed's own text.
C18_EnrichmentIsAdditive ==
    /\ widget_result = "return" =>
          /\ Len(posts) = Len(feed)
          /\ \A i \in 1..Len(feed) : posts[i].title = feed[i].title
    /\ (\E i \in 1..Len(extracted) : extracted[i] = ExtractNull) =>
          /\ widget_result = "return"
          /\ \A i \in 1..Len(extracted) :
                extracted[i] = ExtractNull =>
                    /\ i <= Len(posts)
                    /\ posts[i].title = feed[i].title
                    /\ posts[i].image = Null
                    /\ posts[i].favicon = Null
                    /\ posts[i].site_name = Null
                    /\ posts[i].description = feed[i].text

\* of two HackerNews posts the first got null from extract and the second a
\* record: both are returned, in order, the first bare and the second enriched
C18_Witness ==
    /\ widget = "hackernews"
    /\ widget_result = "return"
    /\ Len(posts) = 2
    /\ extracted[1] = ExtractNull
    /\ extracted[2].kind = "record"
    /\ posts[1].title = "p" /\ posts[1].image = Null
    /\ posts[2].title = "q" /\ posts[2].image = "img"

-----------------------------------------------------------------------------
(* resolve_google_news_url (peek_deck/core/utils.py)                        *)

GoogleNewsPrefix == "https://news.google.com/rss/"

\* the arguments: Google News redirect URLs and other URLs
ResolveUrls ==
    {<<GoogleNewsPrefix, "articles/CBMi">>, <<GoogleNewsPrefix, "articles/CBMj">>,
     <<"https://example.com/", "a">>, <<"http://news.google.com/rss/", "articles/CBMi">>}

\* what the GET of the page can yield: an exception, a page without a
\* c-wiz[data-p] element, or a data-p attribute that is not JSON or that
\* decodes to a list, a string, an object, a number or null
Pages ==
    {"get_raises", "no_c_wiz", "data_p_not_json", "data_p_list", "data_p_string",
     "data_p_dict", "data_p_number", "data_p_null"}

\* what the POST can yield: an exception, a body that is not JSON, JSON of
\* another shape, or the array that holds the article URL
Replies == {"post_raises", "not_json", "wrong_shape", "article"}

ArticleUrl == <<"https://www.example.com/", "article">>

\* obj[:-6] + obj[-2:] is defined for lists and strings only
Sliceable(pg) == pg \in {"data_p_list", "data_p_string"}

\* how the call ends, with the seconds slept and the requests made
Resolved(kind, value, error, slept, requests) ==
    [kind |-> kind, value |-> value, error |-> error, sleeps |-> slept,
     network_calls |-> requests]

\* resolve_google_news_url(google_rss_url)
resolve_google_news_url(u, pg, rp) ==
    IF u[1] # GoogleNewsPrefix THEN Resolved("return", u, "none", 0, 0)
    ELSE IF pg \in {"get_raises", "no_c_wiz", "data_p_not_json"}
    THEN Resolved("return", u, "none", 1, 1)
    ELSE IF ~Sliceable(pg) THEN Resolved("raise", <<>>, "TypeError", 1, 1)
    ELSE IF rp = "article" THEN Resolved("return", ArticleUrl, "none", 1, 2)
    ELSE Resolved("return", u, "none", 1, 2)

InitResolve ==
    /\ now = 0
    /\ cache = EmptyCache
    /\ pc = "idle"
    /\ request = NoRequest
    /\ cache_key = <<>>
    /\ attempt_number = 0
    /\ cached = None
    /\ age = -1
    /\ network_calls = 0
    /\ sleeps = <<>>
    /\ errors = <<>>
    /\ result = NoResult
    /\ fetch_data_result = NoResult
    /\ calls = 0
    /\ failures = 0
    /\ imported = TRUE
    /\ threads = [t \in Threads |-> IdleThread]
    /\ NormIdle /\ ExtractIdle /\ WidgetIdle /\ LateIdle
    /\ google_rss_url \in ResolveUrls
    /\ page \in Pages
    /\ reply \in Replies
    /\ resolve_result = Resolved("none", <<>>, "none", 0, 0)

\* the call runs to its end
ResolveGoogleNewsUrl ==
    /\ resolve_result.kind = "none"
    /\ resolve_result' = resolve_google_news_url(google_rss_url, page, reply)
    /\ UNCHANGED <<google_rss_url, page, reply>>
    /\ UNCHANGED <<now, cache, fetchVars, sharedVars, normVars, extractVars, widgetVars,
                   lateVars>>

NextResolve == ResolveGoogleNewsUrl

SpecResolve == InitResolve /\ [][NextResolve]_vars

\* C20: resolve_google_news_url never raises; a URL that does not start with
\* https://news.google.com/rss/ is returned as it is, with no sleep and no
\* request; for a Google News URL, whenever a step fails (the GET, the missing
\* c-wiz, the decoding of data-p whatever it holds, the building of the
\* payload, the POST, the decoding of the reply) the given URL is returned.
C20_ResolveNeverRaises ==
    resolve_result.kind # "none" =>
        /\ resolve_result.kind = "return"
        /\ google_rss_url[1] # GoogleNewsPrefix =>
              /\ resolve_result.value = google_rss_url
              /\ resolve_result.sleeps = 0
              /\ resolve_result.network_calls = 0
        /\ (google_rss_url[1] = GoogleNewsPrefix
              /\ (page # "data_p_list" \/ reply # "article")
              /\ (page # "data_p_string" \/ reply # "article"))
              => resolve_result.value = google_rss_url

-----------------------------------------------------------------------------
(* No sliding expiration *)

\* C26: a step changes the timestamp of an entry only by the set() of a
\* successful attempt for that key, which stamps it with the current time: a
\* lookup, hit or miss, leaves the timestamp of every entry that stays as it
\* was; and a lookup returns a payload only from an entry younger than the
\* ttl, so an entry stored at t0 is not returned from t0 + ttl on, whatever
\* hits it served before.
C26_NoSlidingExpiration ==
    [][/\ \A k \in DOMAIN cache \cap DOMAIN cache' :
             cache'[k][2] # cache[k][2] =>
                 /\ pc = "running" /\ k = cache_key
                 /\ network_calls' = network_calls + 1
                 /\ errors' = errors
                 /\ cache'[k][2] = now
       /\ (pc = "running" /\ cached' # None /\ (cached' # cached \/ age' # age)) =>
             /\ cache_key \in DOMAIN cache
             /\ now - cache[cache_key][2] < ttl_seconds
             /\ cached' = cache[cache_key][1]]_vars

\* the third invocation in a row was served from the entry stored at time 0,
\* 178 seconds or more after it was stored, and the entry still carries the
\* timestamp 0: the hits in between did not move it
C26_Witness ==
    /\ calls = 3 /\ failures = 0
    /\ pc = "done" /\ network_calls = 0
    /\ age >= 178 /\ age < ttl_seconds
    /\ DOMAIN cache = {cache_key}
    /\ cache[cache_key][2] = 0

-----------------------------------------------------------------------------
(* Idempotence of normalize_url *)

\* C28: normalize_url is idempotent: normalizing the returned string once more
\* gives the same string, for every input.
C28_NormalizeIdempotent ==
    norm_pc = "returned" => normalize_url(clean_url) = clean_url

-----------------------------------------------------------------------------
(* HackerNews: which posts are enriched, and the favicon *)

\* C30: in the HackerNews widget extract is not called for a post whose url is
\* its own HN discussion url, and a returned post carries a favicon only when
\* it carries a non-empty site name.
C30_NoExtractForSelfAndFaviconNeedsSiteName ==
    (widget = "hackernews" /\ widget_result = "return") =>
        \A i \in 1..Len(posts) :
            /\ feed[i].link = "self" => extracted[i] = ExtractSkipped
            /\ posts[i].favicon # Null => TruthyStr(posts[i].site_name)

\* the first post links to its own discussion and extract was skipped for it;
\* for the second extract gave a favicon with an empty site name, and the post
\* was returned without favicon
C30_Witness ==
    /\ widget = "hackernews"
    /\ widget_result = "return"
    /\ Len(posts) = 2
    /\ feed[1].link = "self" /\ extracted[1] = ExtractSkipped
    /\ feed[2].link = "external"
    /\ extracted[2].kind = "record"
    /\ extracted[2].record.favicon = "ico"
    /\ extracted[2].record.site_name = ""
    /\ posts[2].favicon = Null
    /\ posts[2].site_name = ""

-----------------------------------------------------------------------------
(* Cache.get_cache_key (fathom_deck/core/cache.py).  A string is the        *)
(* sequence of its characters.                                              *)

MaxKeyParams == 2

\* the code points of the characters of parameter names
CodePoint == [c \in {"a", "b"} |-> IF c = "a" THEN 97 ELSE 98]

\* Python's `x < y` on strings
RECURSIVE StrLess(_, _)
StrLess(x, y) ==
    IF y = <<>> THEN FALSE
    ELSE IF x = <<>> THEN TRUE
    ELSE IF Head(x) # Head(y) THEN CodePoint[Head(x)] < CodePoint[Head(y)]
    ELSE StrLess(Tail(x), Tail(y))

\* a parameter value and str() of it: the string "1" and the number 1 both
\* print as 1
StrValue(text) == [type |-> "str", text |-> text]
IntValue(text) == [type |-> "int", text |-> text]
Str(v) == v.text

\* insert one (name, value) item into a list of items sorted by name
RECURSIVE InsertItem(_, _)
InsertItem(item, items) ==
    IF items = <<>> THEN <<item>>
    ELSE IF StrLess(item[1], Head(items)[1]) THEN <<item>> \o items
    ELSE <<Head(items)>> \o InsertItem(item, Tail(items))

\* sorted(widget_params.items()); the names of a dict are distinct
RECURSIVE SortedItems(_)
SortedItems(items) ==
    IF items = <<>> THEN <<>>
    ELSE InsertItem(Head(items), SortedItems(Tail(items)))

\* f"{k}={v}" of every item, in order
ParamStrings(items) == [i \in 1..Len(items) |-> items[i][1] \o <<"=">> \o Str(items[i][2])]

Base(series_id, page_id, widget_type) ==
    series_id \o <<"_">> \o page_id \o <<"_">> \o widget_type

KeyOfBase(base, param_str) == IF param_str # <<>> THEN base \o <<"_">> \o param_str ELSE base

\* Cache.get_cache_key; widget_params is the dict as the list of its items in
\* insertion order
get_cache_key(series_id, page_id, widget_type, widget_params) ==
    KeyOfBase(Base(series_id, page_id, widget_type),
              Join(ParamStrings(SortedItems(widget_params)), "_"))

\* the widget instances of the configuration
SeriesIds == {<<"s">>}
PageIds == {<<"p">>, <<"q">>}
WidgetTypes == {<<"t">>}
ParamNames == {<<"a">>, <<"b">>}
ParamValues ==
    {StrValue(<<"1">>), IntValue(<<"1">>), StrValue(<<"2">>),
     StrValue(<<"1", "_", "b", "=", "2">>)}
RECURSIVE ParamItems(_)
ParamItems(n) ==
    IF n = 0 THEN {<<>>}
    ELSE ParamItems(n - 1) \cup
         {Append(items, <<k, v>>) :
             items \in {l \in ParamItems(n - 1) :
                           Len(l) = n - 1 /\ Cardinality({l[i][1] : i \in 1..Len(l)}) = Len(l)},
             k \in ParamNames, v \in ParamValues}
WidgetParams ==
    {items \in ParamItems(MaxKeyParams) :
        Cardinality({items[i][1] : i \in 1..Len(items)}) = Len(items)}
WidgetInstances ==
    [series_id : SeriesIds, page_id : PageIds, widget_type : WidgetTypes,
     widget_params : WidgetParams]

\* the dict the items make up: Python compares dicts without regard to the
\* order of insertion
DictOf(items) ==
    [k \in {items[i][1] : i \in 1..Len(items)} |->
        (CHOOSE i \in 1..Len(items) : items[i][1] = k) ]
DictValues(items) ==
    [k \in DOMAIN DictOf(items) |-> items[DictOf(items)[k]][2]]
SameInstance(x, y) ==
    /\ x.series_id = y.series_id
    /\ x.page_id = y.page_id
    /\ x.widget_type = y.widget_type
    /\ DictValues(x.widget_params) = DictValues(y.widget_params)

InitCacheKey ==
    /\ now = 0
    /\ cache = EmptyCache
    /\ pc = "idle"
    /\ request = NoRequest
    /\ cache_key = <<>>
    /\ attempt_number = 0
    /\ cached = None
    /\ age = -1
    /\ network_calls = 0
    /\ sleeps = <<>>
    /\ errors = <<>>
    /\ result = NoResult
    /\ fetch_data_result = NoResult
    /\ calls = 0
    /\ failures = 0
    /\ imported = TRUE
    /\ threads = [t \in Threads |-> IdleThread]
    /\ NormIdle /\ ExtractIdle /\ WidgetIdle /\ ResolveIdle
    /\ StampIdle /\ CliIdle /\ RenderIdle /\ AgoIdle
    /\ first_instance \in WidgetInstances
    /\ second_instance \in WidgetInstances
    /\ first_key = <<>>
    /\ second_key = <<>>
    /\ key_pc = "start"

\* the key of each of the two widget instances is computed, as fetch,
\* process and render do for every widget of every page
GetCacheKey ==
    /\ key_pc = "start"
    /\ first_key' = get_cache_key(first_instance.series_id, first_instance.page_id,
                                  first_instance.widget_type, first_instance.widget_params)
    /\ second_key' = get_cache_key(second_instance.series_id, second_instance.page_id,
                                   second_instance.widget_type,
                                   second_instance.widget_params)
    /\ key_pc' = "returned"
    /\ UNCHANGED <<first_instance, second_instance>>
    /\ UNCHANGED <<now, cache, fetchVars, sharedVars, normVars, extractVars, widgetVars,
                   resolveVars, stampVars, cliVars, renderVars, agoVars>>

NextCacheKey == GetCacheKey

SpecCacheKey == InitCacheKey /\ [][NextCacheKey]_vars

\* C21: two different widget instances (tuples of series_id, page_id,
\* widget_type and widget_params that are not equal) get different keys, and
\* two instances that differ only in the order their params were inserted get
\* the same key.
C21_KeyUniquePerInstance ==
    key_pc = "returned" =>
        (first_key = second_key <=> SameInstance(first_instance, second_instance))

-----------------------------------------------------------------------------
(* The timestamp Cache (fathom_deck/core/cache.py): the in-memory mapping   *)
(* and widget_timestamps.json                                               *)

MaxClock == 125
MaxMinutes == 2
ClockSteps == {59, 60}
SecondsPerMinute == 60

\* the keys of two widget instances of the configuration
StampKeys ==
    {get_cache_key(<<"s">>, <<"p">>, <<"t">>, <<>>),
     get_cache_key(<<"s">>, <<"q">>, <<"t">>, <<>>)}

\* update_minutes: None or a positive number of minutes
NoMinutes == [kind |-> "None", minutes |-> 0]
Minutes(n) == [kind |-> "int", minutes |-> n]
UpdateMinutes == {NoMinutes} \cup {Minutes(n) : n \in 1..MaxMinutes}

\* datetime.isoformat and datetime.fromisoformat; a file written by hand or by
\* another program can hold a string that is not a date
isoformat(t) == [format |-> "iso", seconds |-> t]
NotADate == [format |-> "text", seconds |-> 0]
fromisoformat(text) ==
    IF text.format = "iso" THEN [raises |-> FALSE, seconds |-> text.seconds]
    ELSE [raises |-> TRUE, seconds |-> 0]

\* the file: absent, not JSON (also: cut short by a write that failed), or
\* the JSON text of a mapping
Absent == [kind |-> "absent", map |-> <<>>]
Unparsable == [kind |-> "unparsable", map |-> <<>>]
Json(mapping) == [kind |-> "json", map |-> mapping]
NoTimestamps == <<>>

load_raising(file) ==
    IF file.kind = "json" THEN [timestamps |-> file.map, raised |-> FALSE]
    ELSE IF file.kind = "unparsable" THEN [timestamps |-> NoTimestamps, raised |-> TRUE]
    ELSE [timestamps |-> NoTimestamps, raised |-> FALSE]

\* Cache.load, called by __init__ on the empty mapping
load(file) ==
    IF file.kind = "json" THEN [timestamps |-> file.map, raised |-> FALSE]
    ELSE IF file.kind = "unparsable" THEN [timestamps |-> NoTimestamps, raised |-> FALSE]
    ELSE [timestamps |-> NoTimestamps, raised |-> FALSE]

\* Cache.save: the file it leaves.  open(..., 'w') empties the file before
\* anything is written: when open itself fails the file is as it was, when
\* the write fails after it the file holds no JSON text
SaveOutcomes == {"written", "open_fails", "write_fails"}
save(mapping, file, outcome) ==
    CASE outcome = "written" -> Json(mapping)
      [] outcome = "open_fails" -> file
      [] OTHER -> Unparsable

needs_update_exclusive(mapping, key, update_minutes, t) ==
    IF update_minutes.kind = "None" THEN TRUE
    ELSE IF key \notin DOMAIN mapping THEN TRUE
    ELSE IF fromisoformat(mapping[key]).raises THEN TRUE
    ELSE t - fromisoformat(mapping[key]).seconds > update_minutes.minutes * SecondsPerMinute

\* Cache.needs_update
needs_update(mapping, key, update_minutes, t) ==
    IF update_minutes.kind = "None" THEN TRUE
    ELSE IF key \notin DOMAIN mapping THEN TRUE
    ELSE IF fromisoformat(mapping[key]).raises THEN TRUE
    ELSE t - fromisoformat(mapping[key]).seconds >= update_minutes.minutes * SecondsPerMinute

\* Cache.mark_updated: the mapping it leaves
mark_updated(mapping, key, t) ==
    [k \in DOMAIN mapping \cup {key} |-> IF k = key THEN isoformat(t) ELSE mapping[k]]

\* the files a run can find
InitialFiles ==
    {Absent, Unparsable} \cup
    {Json(mapping) : mapping \in [StampKeys -> {NotADate, isoformat(0)}]}

InitTimestamps ==
    /\ now = 0
    /\ cache = EmptyCache
    /\ pc = "idle"
    /\ request = NoRequest
    /\ cache_key = <<>>
    /\ attempt_number = 0
    /\ cached = None
    /\ age = -1
    /\ network_calls = 0
    /\ sleeps = <<>>
    /\ errors = <<>>
    /\ result = NoResult
    /\ fetch_data_result = NoResult
    /\ calls = 0
    /\ failures = 0
    /\ imported = TRUE
    /\ threads = [t \in Threads |-> IdleThread]
    /\ NormIdle /\ ExtractIdle /\ WidgetIdle /\ ResolveIdle
    /\ KeyIdle /\ CliIdle /\ RenderIdle /\ AgoIdle
    /\ timestamps = NoTimestamps
    /\ cache_file \in InitialFiles
    /\ clock = 0
    /\ marked_at = <<>>
    /\ last_saved = [kind |-> "none", map |-> <<>>]
    /\ last_op = NoOp

StampsUnchanged ==
    UNCHANGED <<now, cache, fetchVars, sharedVars, normVars, extractVars, widgetVars,
                resolveVars, keyVars, cliVars, renderVars, agoVars>>

\* Cache(cache_dir): a fresh instance takes the place of the live one and
\* loads the file
Construct ==
    /\ timestamps' = load(cache_file).timestamps
    /\ marked_at' = <<>>
    /\ last_op' = [NoOp EXCEPT !.op = "load", !.raised = load(cache_file).raised]
    /\ UNCHANGED <<cache_file, clock, last_saved>>
    /\ StampsUnchanged

MarkUpdated(key) ==
    /\ last_op.op # "none"
    /\ timestamps' = mark_updated(timestamps, key, clock)
    /\ marked_at' = [k \in DOMAIN marked_at \cup {key} |->
                        IF k = key THEN clock ELSE marked_at[k]]
    /\ last_op' = [NoOp EXCEPT !.op = "mark_updated", !.key = key]
    /\ UNCHANGED <<cache_file, clock, last_saved>>
    /\ StampsUnchanged

NeedsUpdate(key, update_minutes) ==
    /\ last_op.op # "none"
    /\ last_op' = [op |-> "needs_update", key |-> key,
                   update_minutes |-> update_minutes.minutes,
                   value |-> needs_update(timestamps, key, update_minutes, clock),
                   raised |-> FALSE]
    /\ UNCHANGED <<timestamps, cache_file, clock, marked_at, last_saved>>
    /\ StampsUnchanged

Save(outcome) ==
    /\ last_op.op # "none"
    /\ cache_file' = save(timestamps, cache_file, outcome)
    /\ last_saved' = IF outcome = "written" THEN Json(timestamps) ELSE last_saved
    /\ last_op' = [NoOp EXCEPT !.op = IF outcome = "written" THEN "save" ELSE "save_failed"]
    /\ UNCHANGED <<timestamps, clock, marked_at>>
    /\ StampsUnchanged

TickClock(d) ==
    /\ clock + d <= MaxClock
    /\ clock' = clock + d
    /\ UNCHANGED <<timestamps, cache_file, marked_at, last_saved, last_op>>
    /\ StampsUnchanged

NextTimestamps ==
    \/ Construct
    \/ \E key \in StampKeys : MarkUpdated(key)
    \/ \E key \in StampKeys, update_minutes \in UpdateMinutes : NeedsUpdate(key, update_minutes)
    \/ \E outcome \in SaveOutcomes : Save(outcome)
    \/ \E d \in ClockSteps : TickClock(d)

SpecTimestamps == InitTimestamps /\ [][NextTimestamps]_vars

\* C23: a needs_update(k, m) call answers True when m is None (0 in last_op),
\* when k is not in the mapping, or when the stored string is not a date; and
\* when mark_updated(k) was last called on this instance at time t and m is a
\* number of minutes, it answers False before t + m minutes and True from
\* t + m minutes on, the boundary included.
C23_NeedsUpdateThreshold ==
    [][(last_op'.op = "needs_update" /\ last_op' # last_op) =>
          /\ (\/ last_op'.update_minutes = 0
              \/ last_op'.key \notin DOMAIN timestamps
              \/ timestamps[last_op'.key] = NotADate) => last_op'.value
          /\ (last_op'.update_minutes # 0 /\ last_op'.key \in DOMAIN marked_at) =>
                (last_op'.value <=>
                    clock >= marked_at[last_op'.key]
                             + last_op'.update_minutes * SecondsPerMinute)]_vars

\* needs_update answered True exactly one minute after the mark, and the
\* mark was made at second 59, so one second earlier it was 59 seconds old
C23_Witness ==
    /\ last_op.op = "needs_update"
    /\ last_op.update_minutes = 1
    /\ last_op.value
    /\ last_op.key \in DOMAIN marked_at
    /\ marked_at[last_op.key] = 59
    /\ clock = 119

\* C24: constructing a Cache over an absent or unparsable file raises nothing
\* and leaves the mapping empty; a save() that fails raises nothing and
\* leaves the mapping as it was.
C24_StoreFailureNeverFatal ==
    [][/\ (last_op'.op = "load" /\ clock' = clock /\ cache_file.kind # "json") =>
             /\ timestamps' = NoTimestamps
             /\ ~last_op'.raised
       /\ (last_op'.op = "save_failed" /\ clock' = clock) =>
             /\ timestamps' = timestamps
             /\ ~last_op'.raised]_vars

\* a save() failed and left no JSON in the file, and the mapping still holds
\* the mark made before it
C24_Witness ==
    /\ last_op.op = "save_failed"
    /\ cache_file = Unparsable
    /\ DOMAIN timestamps = DOMAIN marked_at
    /\ DOMAIN marked_at # {}

\* C25: a freshly constructed Cache holds exactly the mapping that the most
\* recent save() that succeeded wrote: the marks made before that save with
\* their values, and none made after it.
C25_FreshLoadSeesLastSuccessfulSave ==
    [][(last_op'.op = "load" /\ clock' = clock /\ last_saved.kind = "json") =>
          timestamps' = last_saved.map]_vars

-----------------------------------------------------------------------------
(* main (peek_deck/__main__.py)                                             *)

MaxArgs == 2

Words == {"fetch", "process", "render", "all", "serve"}
RECURSIVE Argvs(_)
Argvs(n) ==
    IF n = 0 THEN {<<>>}
    ELSE Argvs(n - 1) \cup
         {Append(a, w) : a \in {b \in Argvs(n - 1) : Len(b) = n - 1}, w \in Words}

StagesOf_render_first(command) ==
    CASE command = "fetch" -> <<"fetch_all">>
      [] command = "process" -> <<"process_all">>
      [] command = "render" -> <<"render_all">>
      [] command = "all" -> <<"render_all", "fetch_all", "process_all">>
      [] OTHER -> <<>>

\* the stage functions a command calls, in the order of the calls
StagesOf(command) ==
    CASE command = "fetch" -> <<"fetch_all">>
      [] command = "process" -> <<"process_all">>
      [] command = "render" -> <<"render_all">>
      [] command = "all" -> <<"fetch_all", "process_all", "render_all">>
      [] OTHER -> <<>>

KnownCommands == {"fetch", "process", "render", "all"}

\* how a call of a stage function, or the import of its module, can end
StageOutcomes == {"return", "raise"}

InitMain ==
    /\ now = 0
    /\ cache = EmptyCache
    /\ pc = "idle"
    /\ request = NoRequest
    /\ cache_key = <<>>
    /\ attempt_number = 0
    /\ cached = None
    /\ age = -1
    /\ network_calls = 0
    /\ sleeps = <<>>
    /\ errors = <<>>
    /\ result = NoResult
    /\ fetch_data_result = NoResult
    /\ calls = 0
    /\ failures = 0
    /\ imported = TRUE
    /\ threads = [t \in Threads |-> IdleThread]
    /\ NormIdle /\ ExtractIdle /\ WidgetIdle /\ ResolveIdle
    /\ KeyIdle /\ StampIdle /\ RenderIdle /\ AgoIdle
    /\ argv \in Argvs(MaxArgs)
    /\ cli_pc = "start"
    /\ stage_log = <<>>
    /\ exit_status = -1

MainUnchanged ==
    UNCHANGED <<now, cache, fetchVars, sharedVars, normVars, extractVars, widgetVars,
                resolveVars, keyVars, stampVars, renderVars, agoVars>>

\* len(sys.argv) < 2: the usage text and sys.exit(1)
Usage ==
    /\ cli_pc = "start"
    /\ Len(argv) < 1
    /\ cli_pc' = "exited"
    /\ exit_status' = 1
    /\ UNCHANGED <<argv, stage_log>>
    /\ MainUnchanged

\* the else branch: "Unknown command" and sys.exit(1)
UnknownCommand ==
    /\ cli_pc = "start"
    /\ Len(argv) >= 1
    /\ argv[1] \notin KnownCommands
    /\ cli_pc' = "exited"
    /\ exit_status' = 1
    /\ UNCHANGED <<argv, stage_log>>
    /\ MainUnchanged

\* the imports at the head of the branch of a known command; an import that
\* raises ends the process with a traceback and status 1
ImportStages(outcome) ==
    /\ cli_pc = "start"
    /\ Len(argv) >= 1
    /\ argv[1] \in KnownCommands
    /\ IF outcome = "return"
       THEN cli_pc' = "imported" /\ UNCHANGED exit_status
       ELSE cli_pc' = "exited" /\ exit_status' = 1
    /\ UNCHANGED <<argv, stage_log>>
    /\ MainUnchanged

\* the next stage function of the command is called
StartStage ==
    /\ cli_pc = "imported"
    /\ Len(stage_log) < Len(StagesOf(argv[1]))
    /\ stage_log' = Append(stage_log,
                           [stage |-> StagesOf(argv[1])[Len(stage_log) + 1],
                            ended |-> "running"])
    /\ cli_pc' = "running"
    /\ UNCHANGED <<argv, exit_status>>
    /\ MainUnchanged

\* the stage function returns, or raises: nothing in main catches, so the
\* process ends with a traceback and status 1
EndStage(outcome) ==
    /\ cli_pc = "running"
    /\ stage_log' = [stage_log EXCEPT ![Len(stage_log)].ended = outcome]
    /\ IF outcome = "return"
       THEN cli_pc' = "imported" /\ UNCHANGED exit_status
       ELSE cli_pc' = "exited" /\ exit_status' = 1
    /\ UNCHANGED argv
    /\ MainUnchanged

\* main returns after the last stage of the command
MainReturns ==
    /\ cli_pc = "imported"
    /\ Len(stage_log) = Len(StagesOf(argv[1]))
    /\ cli_pc' = "exited"
    /\ exit_status' = 0
    /\ UNCHANGED <<argv, stage_log>>
    /\ MainUnchanged

NextMain ==
    \/ Usage
    \/ UnknownCommand
    \/ \E outcome \in StageOutcomes : ImportStages(outcome)
    \/ StartStage
    \/ \E outcome \in StageOutcomes : EndStage(outcome)
    \/ MainReturns

SpecMain == InitMain /\ [][NextMain]_vars

\* C22: under "all" the stages are called in the order fetch_all,
\* process_all, render_all, each after the one before it has returned, and
\* none after a stage that raised; without a command or with an unknown one
\* no stage is called and the process exits with status 1.
C22_AllRunsStagesInOrder ==
    /\ (argv # <<>> /\ argv[1] = "all") =>
          /\ Len(stage_log) <= 3
          /\ \A i \in 1..Len(stage_log) :
                /\ stage_log[i].stage = <<"fetch_all", "process_all", "render_all">>[i]
                /\ i < Len(stage_log) => stage_log[i].ended = "return"
    /\ (argv = <<>> \/ argv[1] \notin KnownCommands) =>
          /\ stage_log = <<>>
          /\ cli_pc = "exited" => exit_status = 1

\* "all" ran fetch_all and process_all to their return, and started
\* render_all, which raised: the process ended with status 1
C22_Witness ==
    /\ argv # <<>> /\ argv[1] = "all"
    /\ Len(stage_log) = 3
    /\ stage_log[1] = [stage |-> "fetch_all", ended |-> "return"]
    /\ stage_log[2] = [stage |-> "process_all", ended |-> "return"]
    /\ stage_log[3] = [stage |-> "render_all", ended |-> "raise"]
    /\ cli_pc = "exited"
    /\ exit_status = 1

-----------------------------------------------------------------------------
(* render_ai_all (peek_deck/render_ai.py)                                   *)

MaxPages == 2
MaxWidgets == 2

\* what the loop over the widgets of a page meets for one widget: its
\* markdown is made, the processed file is missing, the file is not JSON,
\* create_widget_instance raises, to_markdown raises
WidgetOutcomes == {"ok", "no_file", "bad_json", "create_raises", "to_markdown_raises"}
RECURSIVE WidgetLists(_)
WidgetLists(n) ==
    IF n = 0 THEN {<<>>}
    ELSE WidgetLists(n - 1) \cup
         {Append(l, o) : l \in {m \in WidgetLists(n - 1) : Len(m) = n - 1},
                         o \in WidgetOutcomes}

\* a page file: load_page_config raises, or it returns a page that is
\* disabled, or one that is enabled; a page has at least one widget, and
\* generating and writing an enabled page works or raises
PageKinds ==
    {[load |-> "raises", enabled |-> FALSE, widgets |-> <<>>, generate |-> "none"]}
    \cup [load : {"ok"}, enabled : {FALSE}, widgets : WidgetLists(MaxWidgets) \ {<<>>},
          generate : {"none"}]
    \cup [load : {"ok"}, enabled : {TRUE}, widgets : WidgetLists(MaxWidgets) \ {<<>>},
          generate : {"ok", "raises"}]

RECURSIVE widgets_markdown_break(_, _)
widgets_markdown_break(widgets, i) ==
    IF i > Len(widgets) THEN <<>>
    ELSE IF widgets[i] # "ok" THEN <<>>
    ELSE <<i>> \o widgets_markdown_break(widgets, i + 1)

\* the list widgets_markdown after the loop over page_config.widgets, from
\* widget i on: every step but the last of the loop body ends in `continue`
\* when it fails; the markdown of widget i is written as i
RECURSIVE widgets_markdown(_, _)
widgets_markdown(widgets, i) ==
    IF i > Len(widgets) THEN <<>>
    ELSE IF widgets[i] # "ok" THEN widgets_markdown(widgets, i + 1)
    ELSE <<i>> \o widgets_markdown(widgets, i + 1)

InitRenderAi ==
    /\ now = 0
    /\ cache = EmptyCache
    /\ pc = "idle"
    /\ request = NoRequest
    /\ cache_key = <<>>
    /\ attempt_number = 0
    /\ cached = None
    /\ age = -1
    /\ network_calls = 0
    /\ sleeps = <<>>
    /\ errors = <<>>
    /\ result = NoResult
    /\ fetch_data_result = NoResult
    /\ calls = 0
    /\ failures = 0
    /\ imported = TRUE
    /\ threads = [t \in Threads |-> IdleThread]
    /\ NormIdle /\ ExtractIdle /\ WidgetIdle /\ ResolveIdle
    /\ KeyIdle /\ StampIdle /\ CliIdle /\ AgoIdle
    /\ page_count \in 0..MaxPages
    /\ page_index = 0
    /\ rendered_pages = 0
    /\ failed_pages = 0
    /\ current_page = NoPage
    /\ written = NotWritten
    /\ render_pc = "start"

RenderUnchanged ==
    UNCHANGED <<now, cache, fetchVars, sharedVars, normVars, extractVars, widgetVars,
                resolveVars, keyVars, stampVars, cliVars, agoVars>>

\* discover_all_pages found nothing: return before the loop
NoPages ==
    /\ render_pc = "start"
    /\ page_count = 0
    /\ render_pc' = "returned"
    /\ UNCHANGED <<page_count, page_index, rendered_pages, failed_pages, current_page,
                   written>>
    /\ RenderUnchanged

EnterLoop ==
    /\ render_pc = "start"
    /\ page_count > 0
    /\ render_pc' = "loop"
    /\ UNCHANGED <<page_count, page_index, rendered_pages, failed_pages, current_page,
                   written>>
    /\ RenderUnchanged

\* one turn of the loop over page_files
RenderPage(page_file) ==
    /\ render_pc = "loop"
    /\ page_index < page_count
    /\ page_index' = page_index + 1
    /\ current_page' = page_file
    /\ IF page_file.load = "raises"
       THEN /\ failed_pages' = failed_pages + 1
            /\ UNCHANGED rendered_pages
            /\ written' = NotWritten
       ELSE IF ~page_file.enabled
       THEN /\ UNCHANGED <<rendered_pages, failed_pages>>
            /\ written' = NotWritten
       ELSE IF page_file.generate = "raises"
       THEN /\ failed_pages' = failed_pages + 1
            /\ UNCHANGED rendered_pages
            /\ written' = NotWritten
       ELSE /\ rendered_pages' = rendered_pages + 1
            /\ UNCHANGED failed_pages
            /\ written' = [file |-> "md", sections |-> widgets_markdown(page_file.widgets, 1)]
    /\ UNCHANGED <<page_count, render_pc>>
    /\ RenderUnchanged

\* the summary is printed and render_ai_all returns
Summary ==
    /\ render_pc = "loop"
    /\ page_index = page_count
    /\ render_pc' = "returned"
    /\ UNCHANGED <<page_count, page_index, rendered_pages, failed_pages, current_page,
                   written>>
    /\ RenderUnchanged

NextRenderAi ==
    \/ NoPages
    \/ EnterLoop
    \/ \E page_file \in PageKinds : RenderPage(page_file)
    \/ Summary

SpecRenderAi == InitRenderAi /\ [][NextRenderAi]_vars

\* C27: a turn of the loop over an enabled page whose config loaded adds one
\* to exactly one of the two counters, and a turn over a disabled page adds
\* nothing; the page is counted as failed only when generating or writing the
\* page itself raised, whatever its widgets met; and a page that is written
\* holds the sections of exactly the widgets that succeeded, in config order.
C27_PageCountedOnceWidgetFailuresSkipped ==
    [][page_index' = page_index + 1 =>
          /\ (current_page'.load = "ok" /\ current_page'.enabled) =>
                /\ rendered_pages' >= rendered_pages
                /\ failed_pages' >= failed_pages
                /\ rendered_pages' + failed_pages' = rendered_pages + failed_pages + 1
                /\ failed_pages' > failed_pages => current_page'.generate = "raises"
                /\ rendered_pages' > rendered_pages =>
                      /\ written'.file = "md"
                      /\ \A i \in 1..Len(current_page'.widgets) :
                            current_page'.widgets[i] = "ok" <=>
                                \E j \in 1..Len(written'.sections) : written'.sections[j] = i
                      /\ \A j \in 1..Len(written'.sections) - 1 :
                            written'.sections[j] < written'.sections[j + 1]
          /\ (current_page'.load = "ok" /\ ~current_page'.enabled) =>
                /\ rendered_pages' = rendered_pages
                /\ failed_pages' = failed_pages]_vars

\* the second page had a first widget without processed data and a second
\* that rendered: it was written with the second widget's section, and
\* counted as rendered after a first page that was counted as failed
C27_Witness ==
    /\ page_index = 2
    /\ current_page.load = "ok" /\ current_page.enabled
    /\ current_page.widgets = <<"no_file", "ok">>
    /\ written = [file |-> "md", sections |-> <<2>>]
    /\ rendered_pages = 1
    /\ failed_pages = 1

-----------------------------------------------------------------------------
(* format_timestamp_ago and format_time_ago (peek_deck/core/utils.py).      *)
(* The text "5m ago" is the record of its number and its unit.              *)

MaxUnits == 2

AgoMinute == 60
AgoHour == 3600
AgoDay == 86400
AgoMonthDays == 30

Text(n, unit) == [n |-> n, unit |-> unit]
JustNow == Text(0, "just now")

\* now - pub_date as Python's timedelta holds it: days may be negative,
\* seconds is always within 0..86399
timedelta(total) == [days |-> total \div AgoDay, seconds |-> total % AgoDay]

\* the branches of format_timestamp_ago on diff.days and diff.seconds
TimestampAgoText(diff) ==
    IF diff.days > 0
    THEN IF diff.days >= AgoMonthDays
         THEN Text(diff.days \div AgoMonthDays, "mo ago")
         ELSE Text(diff.days, "d ago")
    ELSE IF diff.seconds >= AgoHour THEN Text(diff.seconds \div AgoHour, "h ago")
    ELSE IF diff.seconds >= AgoMinute THEN Text(diff.seconds \div AgoMinute, "m ago")
    ELSE JustNow

format_timestamp_ago(timestamp, t) == TimestampAgoText(timedelta(t - timestamp))

\* the branches of format_time_ago on delta.total_seconds(); int() of the
\* quotients, which are not negative there
TimeAgoText(seconds) ==
    IF seconds < 0 THEN JustNow
    ELSE IF seconds < AgoMinute THEN Text(seconds, "s ago")
    ELSE IF seconds < AgoMinute * AgoMinute THEN Text(seconds \div AgoMinute, "m ago")
    ELSE IF seconds < AgoDay THEN Text(seconds \div AgoHour, "h ago")
    ELSE IF seconds < AgoMonthDays * AgoDay THEN Text(seconds \div AgoDay, "d ago")
    ELSE Text((seconds \div AgoDay) \div AgoMonthDays, "mo ago")

\* format_time_ago of the ISO string of the instant timestamp
format_time_ago(timestamp, t) == TimeAgoText(t - timestamp)

\* the differences now - timestamp tried: around the multiples of every unit,
\* before and after now
AgoUnits == {1, AgoMinute, AgoHour, AgoDay, AgoMonthDays * AgoDay}
AgoDeltas ==
    {k * unit + e : k \in (0 - MaxUnits)..MaxUnits, unit \in AgoUnits, e \in {-1, 0, 1}}
AgoNow == (MaxUnits + 2) * AgoMonthDays * AgoDay

InitAgo ==
    /\ now = 0
    /\ cache = EmptyCache
    /\ pc = "idle"
    /\ request = NoRequest
    /\ cache_key = <<>>
    /\ attempt_number = 0
    /\ cached = None
    /\ age = -1
    /\ network_calls = 0
    /\ sleeps = <<>>
    /\ errors = <<>>
    /\ result = NoResult
    /\ fetch_data_result = NoResult
    /\ calls = 0
    /\ failures = 0
    /\ imported = TRUE
    /\ threads = [t \in Threads |-> IdleThread]
    /\ NormIdle /\ ExtractIdle /\ WidgetIdle /\ ResolveIdle
    /\ KeyIdle /\ StampIdle /\ CliIdle /\ RenderIdle
    /\ ago_now = AgoNow
    /\ ago_timestamp \in {AgoNow - d : d \in AgoDeltas}
    /\ timestamp_ago_text = NoText
    /\ time_ago_text = NoText
    /\ ago_pc = "start"

\* both formatters are called on the instant
FormatAgo ==
    /\ ago_pc = "start"
    /\ timestamp_ago_text' = format_timestamp_ago(ago_timestamp, ago_now)
    /\ time_ago_text' = format_time_ago(ago_timestamp, ago_now)
    /\ ago_pc' = "returned"
    /\ UNCHANGED <<ago_timestamp, ago_now>>
    /\ UNCHANGED <<now, cache, fetchVars, sharedVars, normVars, extractVars, widgetVars,
                   resolveVars, keyVars, stampVars, cliVars, renderVars>>

NextAgo == FormatAgo

SpecAgo == InitAgo /\ [][NextAgo]_vars

\* C29: format_timestamp_ago gives "just now" for an instant in the future or
\* less than 60 seconds back, minutes from 60 seconds to an hour, hours from
\* an hour to a day, days from 1 to 29 days and months from 30 days, and for
\* an instant in the future it gives what format_time_ago gives.
C29_LargestUnitAndFutureJustNow ==
    ago_pc = "returned" =>
        /\ ago_now - ago_timestamp < 60 => timestamp_ago_text = JustNow
        /\ (ago_now - ago_timestamp >= 60 /\ ago_now - ago_timestamp < 3600) =>
              timestamp_ago_text = Text((ago_now - ago_timestamp) \div 60, "m ago")
        /\ (ago_now - ago_timestamp >= 3600 /\ ago_now - ago_timestamp < 86400) =>
              timestamp_ago_text = Text((ago_now - ago_timestamp) \div 3600, "h ago")
        /\ (ago_now - ago_timestamp >= 86400 /\ ago_now - ago_timestamp < 30 * 86400) =>
              timestamp_ago_text = Text((ago_now - ago_timestamp) \div 86400, "d ago")
        /\ ago_now - ago_timestamp >= 30 * 86400 =>
              timestamp_ago_text.unit = "mo ago"
        /\ ago_now - ago_timestamp < 0 => timestamp_ago_text = time_ago_text

====
